---- MODULE Spec2Model ----
(***************************************************************************)
(* Model of the xpath-extractor content script (src/unnamed/part_003,      *)
(* lines 240-1261): selection of DOM elements, inference of an XPath       *)
(* pattern from the selected elements, evaluation of the pattern against   *)
(* the document and extraction of the matched elements' text.              *)
(*                                                                         *)
(* An XPath string is modelled as the sequence of its lexemes: the "/"     *)
(* separators and the segment tokens between them.  A lexeme is a record   *)
(* [tag, idx, id]:                                                         *)
(*   Slash      the separator "/"                                          *)
(*   idx >= 1   the token "tag[idx]"                                       *)
(*   idx = Bare the token "tag"                                            *)
(*   idx = Star the token "tag[*]"                                         *)
(*   id # ""    the token *[@id="id"]                                      *)
(* The empty sequence is the empty string and also a null xpath, which the *)
(* source tests alike (!pattern).                                          *)
(* Positions in variableIndices are 0-based, as in the source; segment i   *)
(* of the source is element i + 1 of the sequence.                         *)
(***************************************************************************)
EXTENDS Integers, Sequences, FiniteSets, TLC

VARIABLES doc, isSelectionModeActive, selectedElements, detectedPattern,
          matchedElements, highlightOverlays, saved, response, last, probe,
          pickerVer1, pickerVer2, gmail, workerVer2, extractor

(* The state of the pattern picker and the state of the other extensions   *)
(* of the repository, each of which runs on its own.                       *)
picker == <<doc, isSelectionModeActive, selectedElements, detectedPattern,
            matchedElements, highlightOverlays, saved, response, last, probe>>

others == <<pickerVer1, pickerVer2, gmail, workerVer2, extractor>>

vars == <<picker, others>>

(* Bound of the model: the largest number of selected elements. *)
MaxSel == 4

(* Token index markers and the null of parseSegment's index. *)
Bare == 0
Star == 0 - 1
Null == 0

(* DOM node handles: 0 is the document node, NoNode is a null reference. *)
Document == 0
NoNode == 0 - 1

(***************************************************************************)
(* Documents.  Elements are numbered in document (pre-)order; the children *)
(* of a node are its elements in ascending number.                         *)
(***************************************************************************)
Sp == " "
Nl == "\n"
Tab == "\t"

TableDoc ==
  [ parent |-> <<0, 1, 2, 3, 4, 4, 3, 7, 7, 3, 10, 10, 2>>,
    tag    |-> <<"html", "body", "table", "tr", "td", "td", "tr", "th", "td",
                 "tr", "td", "td", "div">>,
    id     |-> <<"", "", "", "", "", "", "", "", "", "", "", "", "side">>,
    text   |-> << <<>>, <<>>, <<>>, <<>>,
                  <<Sp, "a", Nl, Tab, "b", Sp, Sp, "c", Sp>>, <<"d">>,
                  <<>>, <<"h">>, <<"e", Sp, Sp, "f">>,
                  <<>>, <<Nl, "g">>, <<"i", Tab>>, <<"x">> >> ]

Docs == {TableDoc}

(* Two tables, the second with a second row of two cells: the paths of    *)
(* elements 5 and 11 differ at the table, the tr and the td position.     *)
NestedDoc ==
  [ parent |-> <<0, 1, 2, 3, 4, 2, 6, 7, 6, 9, 9>>,
    tag    |-> <<"html", "body", "table", "tr", "td", "table", "tr", "td",
                 "tr", "td", "td">>,
    id     |-> <<"", "", "", "", "", "", "", "", "", "", "">>,
    text   |-> << <<>>, <<>>, <<>>, <<>>, <<"p">>, <<>>, <<>>, <<"q">>,
                  <<>>, <<"r">>, <<"s">> >> ]

(* The documents the path functions are applied to. *)
PathDocs == {TableDoc, NestedDoc}

Elements == 1..Len(doc.parent)

ParentNode(e) ==
  IF e \in Elements THEN doc.parent[e] ELSE NoNode

TagName(e) == doc.tag[e]

RECURSIVE SortedSeq(_)
SortedSeq(S) ==
  IF S = {} THEN <<>>
  ELSE LET m == CHOOSE x \in S : \A y \in S : x <= y
       IN <<m>> \o SortedSeq(S \ {m})

Children(n) == SortedSeq({e \in Elements : doc.parent[e] = n})

DocumentElement ==
  LET c == Children(Document) IN IF c = <<>> THEN NoNode ELSE c[1]

DocumentBody ==
  IF DocumentElement = NoNode THEN NoNode
  ELSE LET b == SelectSeq(Children(DocumentElement),
                          LAMBDA c : TagName(c) = "body")
       IN IF b = <<>> THEN NoNode ELSE b[1]

(* Segment tokens. *)
Lit(t, i) == [tag |-> t, idx |-> i, id |-> ""]
BareSeg(t) == [tag |-> t, idx |-> Bare, id |-> ""]
WildSeg(t) == [tag |-> t, idx |-> Star, id |-> ""]
IdSeg(i) == [tag |-> "*", idx |-> Bare, id |-> i]

Slash == [tag |-> "/", idx |-> Bare, id |-> ""]

(* segment.includes("[*]") *)
IsWildToken(s) == s.idx = Star

(* "/" + segments.join("/") *)
RECURSIVE JoinSegments(_)
JoinSegments(segments) ==
  IF segments = <<>> THEN <<>>
  ELSE <<Slash, Head(segments)>> \o JoinSegments(Tail(segments))

(* SiblingIndex counting every preceding sibling, whatever its tag. *)
SiblingIndexAnyTag(e) ==
  1 + Cardinality({s \in Elements : doc.parent[s] = doc.parent[e] /\ s < e})

(* 1 + number of preceding siblings with the element's tag. *)
SiblingIndex(e) ==
  1 + Cardinality({s \in Elements :
        /\ doc.parent[s] = doc.parent[e]
        /\ s < e
        /\ TagName(s) = TagName(e)})

RECURSIVE generateAbsoluteXPath(_)
generateAbsoluteXPath(e) ==
  IF e # NoNode /\ e = DocumentBody
  THEN <<Slash, BareSeg("html"), Slash, BareSeg("body")>>
  ELSE IF e = NoNode \/ ParentNode(e) = NoNode \/ e = DocumentElement
       THEN IF e # NoNode /\ e = DocumentElement
            THEN <<Slash, BareSeg("html")>> ELSE <<>>
       ELSE generateAbsoluteXPath(ParentNode(e))
              \o <<Slash, Lit(TagName(e), SiblingIndex(e))>>

RECURSIVE generateXPath(_)
generateXPath(e) ==
  IF e \in Elements /\ doc.id[e] # "" THEN <<Slash, Slash, IdSeg(doc.id[e])>>
  ELSE IF e # NoNode /\ e = DocumentBody
       THEN <<Slash, BareSeg("html"), Slash, BareSeg("body")>>
  ELSE IF e = NoNode \/ ParentNode(e) = NoNode \/ e = DocumentElement
       THEN IF e # NoNode /\ e = DocumentElement
            THEN <<Slash, BareSeg("html")>> ELSE <<>>
       ELSE generateXPath(ParentNode(e))
              \o <<Slash, Lit(TagName(e), SiblingIndex(e))>>

(* Strip the leading slashes, split at "/" and drop the empty pieces: the   *)
(* tokens of the string, in order.                                         *)
parseXPathToSegments(xpath) == SelectSeq(xpath, LAMBDA t : t # Slash)

(***************************************************************************)
(* parseSegment: "tag[n]" and "tag" match the first regular expression, an *)
(* id reference matches the second, and every other token, "tag[*]"        *)
(* included, is returned whole as the tag with a null index.               *)
(***************************************************************************)
parseSegment(s) ==
  IF s.id # "" THEN [tag |-> "*", index |-> Null, id |-> s.id]
  ELSE IF s.idx = Star THEN [tag |-> s.tag \o "[*]", index |-> Null, id |-> ""]
  ELSE [tag |-> s.tag, index |-> IF s.idx >= 1 THEN s.idx ELSE Null, id |-> ""]

InvalidResult ==
  [pattern |-> <<>>, variableIndices |-> <<>>, isValid |-> FALSE, is2D |-> FALSE]

(* The loop of compareXPaths from position i (0-based) on. *)
RECURSIVE compareLoop(_, _, _, _, _)

(* compareLoop without the final check for an empty variableIndices. *)
compareLoopNoEmptyCheck(s1, s2, i, patternSegments, variableIndices) ==
  IF i >= Len(s1)
  THEN [pattern |-> JoinSegments(patternSegments),
        variableIndices |-> variableIndices,
        isValid |-> TRUE, is2D |-> FALSE]
  ELSE LET parsed1 == parseSegment(s1[i + 1])
           parsed2 == parseSegment(s2[i + 1])
       IN IF parsed1.tag # parsed2.tag THEN InvalidResult
          ELSE IF parsed1.index # parsed2.index /\ parsed1.index # Null
                    /\ parsed2.index # Null
          THEN compareLoop(s1, s2, i + 1,
                           Append(patternSegments, WildSeg(parsed1.tag)),
                           Append(variableIndices, i))
          ELSE IF parsed1.index # Null
          THEN compareLoop(s1, s2, i + 1,
                           Append(patternSegments, Lit(parsed1.tag, parsed1.index)),
                           variableIndices)
          ELSE compareLoop(s1, s2, i + 1,
                           Append(patternSegments, BareSeg(parsed1.tag)),
                           variableIndices)

(* compareLoop recording a variable position 1-based. *)
compareLoopOneBased(s1, s2, i, patternSegments, variableIndices) ==
  IF i >= Len(s1)
  THEN IF Len(variableIndices) = 0 THEN InvalidResult
       ELSE [pattern |-> JoinSegments(patternSegments),
             variableIndices |-> variableIndices,
             isValid |-> TRUE, is2D |-> FALSE]
  ELSE LET parsed1 == parseSegment(s1[i + 1])
           parsed2 == parseSegment(s2[i + 1])
       IN IF parsed1.tag # parsed2.tag THEN InvalidResult
          ELSE IF parsed1.index # parsed2.index /\ parsed1.index # Null
                    /\ parsed2.index # Null
          THEN compareLoop(s1, s2, i + 1,
                           Append(patternSegments, WildSeg(parsed1.tag)),
                           Append(variableIndices, i + 1))
          ELSE IF parsed1.index # Null
          THEN compareLoop(s1, s2, i + 1,
                           Append(patternSegments, Lit(parsed1.tag, parsed1.index)),
                           variableIndices)
          ELSE compareLoop(s1, s2, i + 1,
                           Append(patternSegments, BareSeg(parsed1.tag)),
                           variableIndices)

compareLoop(s1, s2, i, patternSegments, variableIndices) ==
  IF i >= Len(s1)
  THEN IF Len(variableIndices) = 0 THEN InvalidResult
       ELSE [pattern |-> JoinSegments(patternSegments),
             variableIndices |-> variableIndices,
             isValid |-> TRUE, is2D |-> FALSE]
  ELSE LET parsed1 == parseSegment(s1[i + 1])
           parsed2 == parseSegment(s2[i + 1])
       IN IF parsed1.tag # parsed2.tag THEN InvalidResult
          ELSE IF parsed1.index # parsed2.index /\ parsed1.index # Null
                    /\ parsed2.index # Null
          THEN compareLoop(s1, s2, i + 1,
                           Append(patternSegments, WildSeg(parsed1.tag)),
                           Append(variableIndices, i))
          ELSE IF parsed1.index # Null
          THEN compareLoop(s1, s2, i + 1,
                           Append(patternSegments, Lit(parsed1.tag, parsed1.index)),
                           variableIndices)
          ELSE compareLoop(s1, s2, i + 1,
                           Append(patternSegments, BareSeg(parsed1.tag)),
                           variableIndices)

(* compareXPaths recording the positions with unshift instead of push. *)
compareXPathsUnshift(xpath1, xpath2) ==
  LET segments1 == parseXPathToSegments(xpath1)
      segments2 == parseXPathToSegments(xpath2)
      r == compareLoop(segments1, segments2, 0, <<>>, <<>>)
      n == Len(r.variableIndices)
  IN IF Len(segments1) # Len(segments2) THEN InvalidResult
     ELSE [r EXCEPT !.variableIndices =
                      [k \in 1..n |-> r.variableIndices[n + 1 - k]]]

compareXPaths(xpath1, xpath2) ==
  LET segments1 == parseXPathToSegments(xpath1)
      segments2 == parseXPathToSegments(xpath2)
  IN IF Len(segments1) # Len(segments2) THEN InvalidResult
     ELSE compareLoop(segments1, segments2, 0, <<>>, <<>>)

Includes(seq, x) == \E k \in 1..Len(seq) : seq[k] = x

(* The loop of detect2DPattern from position i (0-based) on. *)
RECURSIVE detectLoop(_, _, _, _, _, _, _, _)
detectLoop(existingPattern, existingVariableIndices, patternSegments, newSegments, i, resultSegments, resultVariableIndices, newVariableFound) ==
  IF i >= Len(patternSegments)
  THEN IF ~newVariableFound
       THEN [pattern |-> existingPattern,
             variableIndices |-> existingVariableIndices,
             isValid |-> TRUE, is2D |-> Len(resultVariableIndices) >= 2]
       ELSE [pattern |-> JoinSegments(resultSegments),
             variableIndices |-> resultVariableIndices,
             isValid |-> TRUE, is2D |-> Len(resultVariableIndices) >= 2]
  ELSE LET parsed1 == parseSegment(patternSegments[i + 1])
           parsed2 == parseSegment(newSegments[i + 1])
       IN IF parsed1.tag # parsed2.tag THEN InvalidResult
          ELSE IF Includes(existingVariableIndices, i)
          THEN detectLoop(existingPattern, existingVariableIndices,
                          patternSegments, newSegments, i + 1,
                          Append(resultSegments, WildSeg(parsed1.tag)),
                          resultVariableIndices, newVariableFound)
          ELSE IF parsed1.index # Null /\ parsed2.index # Null
                    /\ parsed1.index # parsed2.index
          THEN detectLoop(existingPattern, existingVariableIndices,
                          patternSegments, newSegments, i + 1,
                          Append(resultSegments, WildSeg(parsed1.tag)),
                          Append(resultVariableIndices, i), TRUE)
          ELSE IF parsed1.index # Null
          THEN detectLoop(existingPattern, existingVariableIndices,
                          patternSegments, newSegments, i + 1,
                          Append(resultSegments, Lit(parsed1.tag, parsed1.index)),
                          resultVariableIndices, newVariableFound)
          ELSE detectLoop(existingPattern, existingVariableIndices,
                          patternSegments, newSegments, i + 1,
                          Append(resultSegments, BareSeg(parsed1.tag)),
                          resultVariableIndices, newVariableFound)

detect2DPattern(existingPattern, existingVariableIndices, newXPath) ==
  LET patternSegments == parseXPathToSegments(existingPattern)
      newSegments == parseXPathToSegments(newXPath)
  IN IF Len(patternSegments) # Len(newSegments) THEN InvalidResult
     ELSE detectLoop(existingPattern, existingVariableIndices, patternSegments,
                     newSegments, 0, <<>>, existingVariableIndices, FALSE)

(***************************************************************************)
(* Pattern evaluation.                                                     *)
(***************************************************************************)
ChildrenWithTag(n, t) ==
  SelectSeq(Children(n), LAMBDA c : TagName(c) = t)

(* segment.replace("[*]", "[1]") *)
ReplaceStar(s) == IF s.idx = Star THEN [s EXCEPT !.idx = 1] ELSE s

RECURSIVE collectElementsWithWildcard(_, _, _)
RECURSIVE collectOverChildren(_, _, _)
collectOverChildren(segments, segmentIndex, children) ==
  IF children = <<>> THEN <<>>
  ELSE collectElementsWithWildcard(segments, segmentIndex, Head(children))
         \o collectOverChildren(segments, segmentIndex, Tail(children))

(* collectElementsWithWildcard leaving the wildcard loop at the first      *)
(* child with the tag, as the fixed-index loop does.                       *)
collectElementsFirstChild(segments, segmentIndex, currentNode) ==
  IF segmentIndex >= Len(segments)
  THEN IF currentNode # Document THEN <<currentNode>> ELSE <<>>
  ELSE LET segment == segments[segmentIndex + 1]
           parsed == parseSegment(ReplaceStar(segment))
           isWildcard == IsWildToken(segment)
       IN IF segment = BareSeg("html") /\ currentNode = Document
          THEN collectElementsWithWildcard(segments, segmentIndex + 1,
                                           DocumentElement)
          ELSE IF segment = BareSeg("body") /\ currentNode = DocumentElement
          THEN collectElementsWithWildcard(segments, segmentIndex + 1,
                                           DocumentBody)
          ELSE LET same == ChildrenWithTag(currentNode, parsed.tag)
                   targetIndex ==
                     IF isWildcard \/ parsed.index = Null THEN 1
                     ELSE parsed.index
               IN IF targetIndex <= Len(same)
                  THEN collectElementsWithWildcard(
                         segments, segmentIndex + 1, same[targetIndex])
                  ELSE <<>>

collectElementsWithWildcard(segments, segmentIndex, currentNode) ==
  IF segmentIndex >= Len(segments)
  THEN IF currentNode # Document THEN <<currentNode>> ELSE <<>>
  ELSE LET segment == segments[segmentIndex + 1]
           parsed == parseSegment(ReplaceStar(segment))
           isWildcard == IsWildToken(segment)
       IN IF segment = BareSeg("html") /\ currentNode = Document
          THEN collectElementsWithWildcard(segments, segmentIndex + 1,
                                           DocumentElement)
          ELSE IF segment = BareSeg("body") /\ currentNode = DocumentElement
          THEN collectElementsWithWildcard(segments, segmentIndex + 1,
                                           DocumentBody)
          ELSE LET same == ChildrenWithTag(currentNode, parsed.tag)
               IN IF isWildcard
                  THEN collectOverChildren(segments, segmentIndex + 1, same)
                  ELSE LET targetIndex ==
                             IF parsed.index # Null THEN parsed.index ELSE 1
                       IN IF targetIndex <= Len(same)
                          THEN collectElementsWithWildcard(
                                 segments, segmentIndex + 1, same[targetIndex])
                          ELSE <<>>

(* document.evaluate of a location path without wildcard: each step takes  *)
(* the children named by the token, all of them for a bare tag, the n-th   *)
(* for tag[n]; the result is in document order.                            *)
RECURSIVE evaluateSteps(_, _, _)
evaluateSteps(segments, k, context) ==
  IF k > Len(segments) THEN context
  ELSE LET s == segments[k]
           step(n) ==
             IF s.id # "" THEN {}
             ELSE LET same == ChildrenWithTag(n, s.tag)
                  IN IF s.idx = Bare THEN {same[j] : j \in 1..Len(same)}
                     ELSE IF s.idx >= 1 /\ s.idx <= Len(same) THEN {same[s.idx]}
                     ELSE {}
       IN evaluateSteps(segments, k + 1, UNION {step(n) : n \in context})

documentEvaluate(pattern) ==
  SortedSeq(evaluateSteps(SelectSeq(pattern, LAMBDA t : t # Slash), 1,
                          {Document}))

(* findMatchingElements handing every pattern to document.evaluate. *)
findMatchingElementsEvaluate(pattern) ==
  IF pattern = <<>> THEN <<>>
  ELSE documentEvaluate(pattern)

findMatchingElements(pattern) ==
  IF pattern = <<>> THEN <<>>
  ELSE LET segments == parseXPathToSegments(pattern)
       IN IF \A k \in 1..Len(segments) : ~IsWildToken(segments[k])
          THEN documentEvaluate(pattern)
          ELSE collectElementsWithWildcard(segments, 0, Document)

(***************************************************************************)
(* Text.  A text is a sequence of one-character strings.                   *)
(***************************************************************************)
LineOrTab == {"\r", "\n", "\t"}
Space == {" ", "\r", "\n", "\t"}

(* replace(re, " ") for a character class: every maximal run becomes " ". *)
RECURSIVE ReplaceRuns(_, _, _)

(* The replace without the + of the regular expression: every character of *)
(* the class becomes " ".                                                  *)
RECURSIVE ReplaceEach(_, _, _)
ReplaceEach(text, class, inRun) ==
  IF text = <<>> THEN <<>>
  ELSE IF Head(text) \in class
       THEN <<" ">> \o ReplaceEach(Tail(text), class, TRUE)
       ELSE <<Head(text)>> \o ReplaceEach(Tail(text), class, FALSE)

ReplaceRuns(text, class, inRun) ==
  IF text = <<>> THEN <<>>
  ELSE IF Head(text) \in class
       THEN (IF inRun THEN <<>> ELSE <<" ">>)
              \o ReplaceRuns(Tail(text), class, TRUE)
       ELSE <<Head(text)>> \o ReplaceRuns(Tail(text), class, FALSE)

RECURSIVE TrimLeft(_)
TrimLeft(text) ==
  IF text # <<>> /\ Head(text) \in Space THEN TrimLeft(Tail(text)) ELSE text

RECURSIVE TrimRight(_)
TrimRight(text) ==
  IF text # <<>> /\ text[Len(text)] \in Space
  THEN TrimRight(SubSeq(text, 1, Len(text) - 1)) ELSE text

(* normalizeText without the final trim. *)
normalizeTextNoTrim(text) ==
  IF text = <<>> THEN <<>>
  ELSE ReplaceRuns(ReplaceRuns(text, LineOrTab, FALSE), Space, FALSE)

normalizeText(text) ==
  IF text = <<>> THEN <<>>
  ELSE TrimRight(TrimLeft(
         ReplaceRuns(ReplaceRuns(text, LineOrTab, FALSE), Space, FALSE)))

(* getElementText of xpath_picker_ver2, from the element's textContent:   *)
(* (textContent || "").replace(/\s+/g, " ").trim()                         *)
getElementText(text) ==
  TrimRight(TrimLeft(ReplaceRuns(text, Space, FALSE)))

RECURSIVE textContent(_)
RECURSIVE textOfAll(_)
textOfAll(nodes) ==
  IF nodes = <<>> THEN <<>>
  ELSE textContent(Head(nodes)) \o textOfAll(Tail(nodes))

textContent(e) ==
  IF Children(e) = <<>> THEN doc.text[e] ELSE textOfAll(Children(e))

(***************************************************************************)
(* Pattern state.  detectedPattern = null is NoPattern; a null xpath is    *)
(* the empty sequence.                                                     *)
(***************************************************************************)
NoPattern == [type |-> "null", xpath |-> <<>>, variableIndices |-> <<>>]

MultiplePattern == [type |-> "multiple", xpath |-> <<>>, variableIndices |-> <<>>]

ElementsOf(sel) == [k \in 1..Len(sel) |-> sel[k].element]

NoCall == [ran |-> FALSE]

(* PatternOfCompare reporting every pattern as "1d". *)
PatternOfCompareOneDimension(result) ==
  [type |-> "1d",
   xpath |-> result.pattern,
   variableIndices |-> result.variableIndices]

PatternOfCompare(result) ==
  [type |-> IF Len(result.variableIndices) >= 2 THEN "2d" ELSE "1d",
   xpath |-> result.pattern,
   variableIndices |-> result.variableIndices]

PatternOfDetect(result2D) ==
  [type |-> IF result2D.is2D THEN "2d" ELSE "1d",
   xpath |-> result2D.pattern,
   variableIndices |-> result2D.variableIndices]

(***************************************************************************)
(* updatePattern, as a function of the selection and the held pattern.     *)
(* It returns the new detectedPattern and matchedElements, and, for the    *)
(* properties, the calls of compareXPaths and detect2DPattern it made.     *)
(***************************************************************************)

(* Two elements selected: the outcome of the comparison (lines 562-578). *)
afterCompareEmpty(sel, result) ==
  IF result.isValid
  THEN [pattern |-> PatternOfCompare(result),
        matched |-> findMatchingElements(result.pattern)]
  ELSE [pattern |-> MultiplePattern, matched |-> <<>>]

afterCompare(sel, result) ==
  IF result.isValid
  THEN [pattern |-> PatternOfCompare(result),
        matched |-> findMatchingElements(result.pattern)]
  ELSE [pattern |-> MultiplePattern, matched |-> ElementsOf(sel)]

(* Three or more selected: the outcome of detect2DPattern (lines 607-617). *)
afterDetectFallback(sel, held, currentPattern, result2D) ==
  IF result2D.isValid
  THEN [pattern |-> PatternOfDetect(result2D),
        matched |-> findMatchingElements(result2D.pattern)]
  ELSE [pattern |-> MultiplePattern, matched |-> ElementsOf(sel)]

(* afterDetect leaving the selected elements as the matched ones when      *)
(* detect2DPattern fails.                                                  *)
afterDetectSelection(sel, held, currentPattern, result2D) ==
  IF result2D.isValid
  THEN [pattern |-> PatternOfDetect(result2D),
        matched |-> findMatchingElements(result2D.pattern)]
  ELSE [pattern |-> held, matched |-> ElementsOf(sel)]

afterDetect(sel, held, currentPattern, result2D) ==
  IF result2D.isValid
  THEN [pattern |-> PatternOfDetect(result2D),
        matched |-> findMatchingElements(result2D.pattern)]
  ELSE [pattern |-> held,
        matched |-> findMatchingElements(currentPattern.xpath)]

updatePattern(sel, held) ==
  IF Len(sel) = 0
  THEN [pattern |-> NoPattern, matched |-> <<>>, cmp |-> NoCall, ext |-> NoCall]
  ELSE IF Len(sel) = 1
  THEN [pattern |-> [type |-> "single", xpath |-> sel[1].xpath,
                     variableIndices |-> <<>>],
        matched |-> <<sel[1].element>>, cmp |-> NoCall, ext |-> NoCall]
  ELSE
    LET absoluteXPaths ==
          [k \in 1..Len(sel) |-> generateAbsoluteXPath(sel[k].element)]
        result == compareXPaths(absoluteXPaths[1], absoluteXPaths[2])
        cmpCall == [ran |-> TRUE, xpath1 |-> absoluteXPaths[1],
                    xpath2 |-> absoluteXPaths[2], result |-> result]
    IN IF Len(sel) = 2
       THEN LET out == afterCompare(sel, result)
            IN [pattern |-> out.pattern, matched |-> out.matched,
                cmp |-> cmpCall, ext |-> NoCall]
       ELSE
         LET needInitial == held.type = "null" \/ held.type = "multiple"
         IN IF needInitial /\ ~result.isValid
            THEN [pattern |-> MultiplePattern, matched |-> ElementsOf(sel),
                  cmp |-> cmpCall, ext |-> NoCall]
            ELSE
              LET currentPattern ==
                    IF needInitial THEN PatternOfCompare(result) ELSE held
                  latestXPath == absoluteXPaths[Len(sel)]
                  result2D == detect2DPattern(currentPattern.xpath,
                                              currentPattern.variableIndices,
                                              latestXPath)
                  out == afterDetect(sel, held, currentPattern, result2D)
              IN [pattern |-> out.pattern, matched |-> out.matched,
                  cmp |-> IF needInitial THEN cmpCall ELSE NoCall,
                  ext |-> [ran |-> TRUE, current |-> currentPattern,
                           newXPath |-> latestXPath, result |-> result2D]]

(***************************************************************************)
(* Extraction.                                                             *)
(***************************************************************************)
IndexOrZero(parsed) == IF parsed.index # Null THEN parsed.index ELSE 0

(* cols.sort((a, b) => a.colIndex - b.colIndex), a stable sort: insertion *)
(* of each cell behind the cells with a smaller or equal column index.     *)
RECURSIVE InsertByCol(_, _)
InsertByCol(sorted, x) ==
  IF sorted = <<>> THEN <<x>>
  ELSE IF x.colIndex < Head(sorted).colIndex THEN <<x>> \o sorted
  ELSE <<Head(sorted)>> \o InsertByCol(Tail(sorted), x)

RECURSIVE SortByCol(_)
SortByCol(seq) ==
  IF seq = <<>> THEN <<>>
  ELSE InsertByCol(SortByCol(SubSeq(seq, 1, Len(seq) - 1)), seq[Len(seq)])

(* One entry of a row of extract2DData: the keys and the text of a matched *)
(* element.                                                                *)
cellOf(pattern, element) ==
  LET elementSegments == parseXPathToSegments(generateAbsoluteXPath(element))
      rowVarIndex == pattern.variableIndices[1]
      colVarIndex == pattern.variableIndices[2]
  IN [element |-> element,
      rowKey |-> IndexOrZero(parseSegment(elementSegments[rowVarIndex + 1])),
      colIndex |-> IndexOrZero(parseSegment(elementSegments[colVarIndex + 1])),
      text |-> normalizeText(textContent(element))]

(* The cells collected by the forEach of extract2DData, in matched order:  *)
(* elements whose path has another length than the pattern are skipped.    *)
RECURSIVE cellsOf2D(_, _)
cellsOf2D(pattern, matched) ==
  IF matched = <<>> THEN <<>>
  ELSE IF Len(parseXPathToSegments(generateAbsoluteXPath(Head(matched))))
            # Len(parseXPathToSegments(pattern.xpath))
       THEN cellsOf2D(pattern, Tail(matched))
       ELSE <<cellOf(pattern, Head(matched))>>
              \o cellsOf2D(pattern, Tail(matched))

(* rowElements.get(rowKey): the cells of a row, in the order collected. *)
RECURSIVE cellsOfRow(_, _)
cellsOfRow(cells, rowKey) ==
  IF cells = <<>> THEN <<>>
  ELSE IF Head(cells).rowKey = rowKey
       THEN <<Head(cells)>> \o cellsOfRow(Tail(cells), rowKey)
       ELSE cellsOfRow(Tail(cells), rowKey)

(* The rows of extract2DData as sequences of cells: rows in ascending row  *)
(* key, the cells of a row sorted by column index.                         *)
(* The one element of a singleton set: Only({f(x) : x \in {e}}) is f(e)    *)
(* with e computed once, as a const of the source is.                      *)
Only(S) == CHOOSE v \in S : TRUE

rowsOfCells(cells, sortedRowKeys) ==
  [r \in 1..Len(sortedRowKeys) |->
     SortByCol(cellsOfRow(cells, sortedRowKeys[r]))]

rowsOf2D(pattern, matched) ==
  Only({ Only({ rowsOfCells(cells, sortedRowKeys) :
                  sortedRowKeys \in
                    {SortedSeq({cells[k].rowKey : k \in 1..Len(cells)})} }) :
         cells \in {cellsOf2D(pattern, matched)} })

MaxOf(S) == IF S = {} THEN 0 ELSE CHOOSE x \in S : \A y \in S : y <= x

(* The matrix of extract2DData and its patternInfo, from the sorted rows. *)
matrixOfRows(rows, xpath) ==
  [data |-> [r \in 1..Len(rows) |->
               [c \in 1..Len(rows[r]) |-> rows[r][c].text]],
   patternInfo |->
     [type |-> "2d", rows |-> Len(rows),
      cols |-> MaxOf({Len(rows[r]) : r \in 1..Len(rows)}),
      xpath |-> xpath]]

extractData(sel, pattern, matched) ==
  IF pattern.type = "null" \/ Len(matched) = 0
  THEN [data |-> [k \in 1..Len(sel) |->
                    normalizeText(textContent(sel[k].element))],
        patternInfo |-> [type |-> "multiple", count |-> Len(sel),
                         xpath |-> <<>>]]
  ELSE IF pattern.type = "2d"
  THEN IF Len(pattern.variableIndices) < 2
       THEN [data |-> <<>>,
             patternInfo |-> [type |-> "unbounded recursion"]]
       ELSE Only({ matrixOfRows(rows, pattern.xpath) :
                     rows \in {rowsOf2D(pattern, matched)} })
  ELSE [data |-> [k \in 1..Len(matched) |->
                    normalizeText(textContent(matched[k]))],
        patternInfo |-> [type |-> pattern.type, count |-> Len(matched),
                         xpath |-> pattern.xpath]]

(***************************************************************************)
(* The content script as a state machine.                                  *)
(*   saved  the payload of the last saveExtractedData message              *)
(*   response  the reply to the last getCurrentData message, dropped when   *)
(*          the selection or the document changes                          *)
(*   last   the last click, double-click or clearSelection handler that    *)
(*          ran: whether it changed the selection, the number of           *)
(*          saveExtractedData messages it sent, the type of the pattern    *)
(*          held when it started, and the calls of compareXPaths and       *)
(*          detect2DPattern made by its updatePattern                      *)
(*   probe  the last direct application of the path functions              *)
(***************************************************************************)
NoSave == [sent |-> FALSE]

(* response: the reply to the getCurrentData messages handled since the    *)
(* selection or the document last changed.                                 *)
NoResponse == [sent |-> FALSE]

(* highlightOverlays: the elements that carry an overlay of type           *)
(* "selected" and those that carry one of type "matched".  The overlays    *)
(* are div elements appended to the body behind its other children: they   *)
(* take no part in the paths of the documents modelled here, which have no *)
(* pattern with a wildcard at a div under the body.                        *)
NoHighlights == [selected |-> {}, matched |-> {}]

refreshHighlights(sel, matched) ==
  LET selected == {sel[k].element : k \in 1..Len(sel)}
  IN [selected |-> selected,
      matched |-> {matched[k] : k \in 1..Len(matched)} \ selected]
NoProbe == [ran |-> FALSE]

(* The elements the user clicks on. *)
Targets == {5, 6, 8, 9, 13}

(* The nodes a script of the page removes from the document. *)
Removable == {3}

(* document.contains(e): the node is reachable from the document node. *)
RECURSIVE IsConnected(_)
IsConnected(e) ==
  IF e = Document THEN TRUE
  ELSE IF e = NoNode THEN FALSE
  ELSE IsConnected(doc.parent[e])

(***************************************************************************)
(* xpath_picker_ver1: the content script that copies the full XPath of one *)
(* clicked element.                                                        *)
(***************************************************************************)
(* Bounds: clipboard writes in flight, overlays on the page, messages of   *)
(* the background script on their way to the tab.                          *)
MaxWrites == 2
MaxOverlays == 2
MaxInbox == 2

(* writes: the XPaths whose clipboard write has not settled; clipboard:    *)
(* the text last written; toast: the message on display; overlays: the     *)
(* number of highlight overlays on the page; handled: the clicks whose     *)
(* XPath was computed since selection mode was last turned on; activeTabs: *)
(* the entry of the tab in the background script; inbox: the messages the  *)
(* background script sent to the tab and the tab has not yet received.     *)
InitVer1 ==
  [selectionModeEnabled |-> FALSE, clickListener |-> FALSE, writes |-> <<>>,
   clipboard |-> <<>>, toast |-> "", overlays |-> 0, handled |-> 0,
   activeTabs |-> FALSE, inbox |-> <<>>]

RECURSIVE computeFullXPath(_)
computeFullXPath(element) ==
  IF element \notin Elements THEN <<>>
  ELSE computeFullXPath(ParentNode(element))
         \o <<Slash, Lit(TagName(element), SiblingIndex(element))>>

enableSelectionMode ==
  /\ ~pickerVer1.selectionModeEnabled
  /\ pickerVer1' = [pickerVer1 EXCEPT !.selectionModeEnabled = TRUE,
                                       !.clickListener = TRUE,
                                       !.handled = 0]
  /\ UNCHANGED <<picker, pickerVer2, gmail, workerVer2, extractor>>

disabledVer1(p) ==
  [p EXCEPT !.selectionModeEnabled = FALSE, !.clickListener = FALSE]

disableSelectionMode ==
  /\ pickerVer1' = disabledVer1(pickerVer1)
  /\ UNCHANGED <<picker, pickerVer2, gmail, workerVer2, extractor>>

(* The click listener.  A click whose target is a text node is handled as  *)
(* a click on the element that holds the text; NoNode is a click without   *)
(* an element.                                                             *)
clickListener(target) ==
  /\ pickerVer1.clickListener
  /\ pickerVer1.selectionModeEnabled
  /\ IF target = NoNode
     THEN pickerVer1' = disabledVer1(pickerVer1)
     ELSE /\ Len(pickerVer1.writes) < MaxWrites
          /\ pickerVer1.overlays < MaxOverlays
          /\ pickerVer1' =
               [pickerVer1 EXCEPT
                  !.overlays = @ + 1,
                  !.writes = Append(@, computeFullXPath(target)),
                  !.handled = @ + 1]
  /\ UNCHANGED <<picker, pickerVer2, gmail, workerVer2, extractor>>

RemoveAt(seq, i) == SubSeq(seq, 1, i - 1) \o SubSeq(seq, i + 1, Len(seq))

(* The clipboard write of writes[i] settles: then or catch shows the       *)
(* toast, finally runs cleanUpAfterSelection.                              *)
copySettles(i, ok) ==
  /\ i \in 1..Len(pickerVer1.writes)
  /\ pickerVer1' =
       [disabledVer1(pickerVer1) EXCEPT
          !.writes = RemoveAt(@, i),
          !.clipboard = IF ok THEN pickerVer1.writes[i] ELSE @,
          !.toast = IF ok THEN "XPath copied" ELSE "Copy failed"]
  /\ UNCHANGED <<picker, pickerVer2, gmail, workerVer2, extractor>>

(* The 300 ms timer of an overlay and the 1.2 s timer of a toast. *)
overlayTimeout ==
  /\ pickerVer1.overlays > 0
  /\ pickerVer1' = [pickerVer1 EXCEPT !.overlays = @ - 1]
  /\ UNCHANGED <<picker, pickerVer2, gmail, workerVer2, extractor>>

toastTimeout ==
  /\ pickerVer1.toast # ""
  /\ pickerVer1' = [pickerVer1 EXCEPT !.toast = ""]
  /\ UNCHANGED <<picker, pickerVer2, gmail, workerVer2, extractor>>

(* background.js: a click on the toolbar icon toggles the tab's entry and  *)
(* sends the tab the matching message.                                     *)
onClicked ==
  /\ Len(pickerVer1.inbox) < MaxInbox
  /\ pickerVer1' =
       [pickerVer1 EXCEPT
          !.activeTabs = ~@,
          !.inbox = Append(@, IF pickerVer1.activeTabs
                              THEN "xpathpicker_disable"
                              ELSE "xpathpicker_enable")]
  /\ UNCHANGED <<picker, pickerVer2, gmail, workerVer2, extractor>>

(* The content script receives the oldest message of the background        *)
(* script: enableSelectionMode, which does nothing when the mode is on, or  *)
(* disableSelectionMode.                                                   *)
onMessageVer1 ==
  /\ pickerVer1.inbox # <<>>
  /\ pickerVer1' =
       [(IF Head(pickerVer1.inbox) = "xpathpicker_enable"
         THEN IF pickerVer1.selectionModeEnabled THEN pickerVer1
              ELSE [pickerVer1 EXCEPT !.selectionModeEnabled = TRUE,
                                      !.clickListener = TRUE,
                                      !.handled = 0]
         ELSE disabledVer1(pickerVer1))
        EXCEPT !.inbox = Tail(pickerVer1.inbox)]
  /\ UNCHANGED <<picker, pickerVer2, gmail, workerVer2, extractor>>

NextVer1Tab ==
  \/ onClicked
  \/ onMessageVer1
  \/ \E target \in Targets \cup {NoNode} : clickListener(target)
  \/ \E i \in 1..MaxWrites, ok \in BOOLEAN : copySettles(i, ok)
  \/ overlayTimeout
  \/ toastTimeout

NextVer1 ==
  \/ enableSelectionMode
  \/ disableSelectionMode
  \/ \E target \in Targets \cup {NoNode} : clickListener(target)
  \/ \E i \in 1..MaxWrites, ok \in BOOLEAN : copySettles(i, ok)
  \/ overlayTimeout
  \/ toastTimeout

MaxOfSet(S) == CHOOSE x \in S : \A y \in S : y <= x

(***************************************************************************)
(* xpath_picker_ver2: the service worker, for one tab.                     *)
(***************************************************************************)
(* Bound: the handleActivate and handleDeactivate calls in progress. *)
MaxCalls == 2

(* activeTabsMap: the tab's entry; calls: the calls in progress, each at   *)
(* the await it has reached; tabOpen: the tab exists; status: the answer   *)
(* to the last getStatus; last: the request or event handled last;         *)
(* succeeded: a handleActivate has resolved after its three steps since    *)
(* the entry was last deleted.                                             *)
InitWorkerVer2 ==
  [activeTabsMap |-> FALSE, calls |-> <<>>, tabOpen |-> TRUE,
   status |-> "none", last |-> "none", succeeded |-> FALSE]

(* onMessage: activate and deactivate start their handler, which returns   *)
(* at once when the entry is already as wanted; getStatus answers from the *)
(* entry.                                                                  *)
onMessageActivate ==
  /\ Len(workerVer2.calls) < MaxCalls
  /\ workerVer2' =
       IF workerVer2.activeTabsMap
       THEN [workerVer2 EXCEPT !.last = "activate resolved"]
       ELSE [workerVer2 EXCEPT
               !.calls = Append(@, [kind |-> "activate", at |-> "executeScript"]),
               !.last = "activate"]
  /\ UNCHANGED <<picker, pickerVer1, pickerVer2, gmail, extractor>>

onMessageDeactivate ==
  /\ Len(workerVer2.calls) < MaxCalls
  /\ workerVer2' =
       IF ~workerVer2.activeTabsMap
       THEN [workerVer2 EXCEPT !.last = "deactivate resolved"]
       ELSE [workerVer2 EXCEPT
               !.calls = Append(@, [kind |-> "deactivate", at |-> "sendMessage"]),
               !.last = "deactivate"]
  /\ UNCHANGED <<picker, pickerVer1, pickerVer2, gmail, extractor>>

onMessageGetStatus ==
  /\ workerVer2' =
       [workerVer2 EXCEPT
          !.status = IF workerVer2.activeTabsMap THEN "active" ELSE "inactive",
          !.last = "getStatus"]
  /\ UNCHANGED <<picker, pickerVer1, pickerVer2, gmail, extractor>>

(* The promise call i awaits settles.  handleActivate goes from the        *)
(* injection to the CSS, then sets the entry and sends the activate        *)
(* message, and resolves when that is answered; a failed step rejects.     *)
(* handleDeactivate deletes the entry whatever the answer.                 *)
awaitSettles(i, ok) ==
  /\ i \in 1..Len(workerVer2.calls)
  /\ ok => workerVer2.tabOpen
  /\ \E call \in {workerVer2.calls[i]} :
       workerVer2' =
         IF call.kind = "deactivate"
         THEN [workerVer2 EXCEPT !.calls = RemoveAt(@, i),
                                 !.activeTabsMap = FALSE,
                                 !.succeeded = FALSE,
                                 !.last = "deactivate resolved"]
         ELSE IF ~ok
         THEN [workerVer2 EXCEPT !.calls = RemoveAt(@, i),
                                 !.last = "activate rejected"]
         ELSE IF call.at = "executeScript"
         THEN [workerVer2 EXCEPT !.calls[i].at = "insertCSS",
                                 !.last = "activate"]
         ELSE IF call.at = "insertCSS"
         THEN [workerVer2 EXCEPT !.calls[i].at = "sendMessage",
                                 !.activeTabsMap = TRUE,
                                 !.last = "activate"]
         ELSE [workerVer2 EXCEPT !.calls = RemoveAt(@, i),
                                 !.succeeded = workerVer2.activeTabsMap,
                                 !.last = "activate resolved"]
  /\ UNCHANGED <<picker, pickerVer1, pickerVer2, gmail, extractor>>

onRemoved ==
  /\ workerVer2.tabOpen
  /\ workerVer2' = [workerVer2 EXCEPT !.activeTabsMap = FALSE,
                                      !.succeeded = FALSE,
                                      !.tabOpen = FALSE,
                                      !.last = "removed"]
  /\ UNCHANGED <<picker, pickerVer1, pickerVer2, gmail, extractor>>

onUpdated(status) ==
  /\ workerVer2.tabOpen
  /\ workerVer2' =
       IF status = "loading"
       THEN [workerVer2 EXCEPT !.activeTabsMap = FALSE,
                               !.succeeded = FALSE,
                               !.last = "loading"]
       ELSE [workerVer2 EXCEPT !.last = "complete"]
  /\ UNCHANGED <<picker, pickerVer1, pickerVer2, gmail, extractor>>

NextWorkerVer2 ==
  \/ onMessageActivate
  \/ onMessageDeactivate
  \/ onMessageGetStatus
  \/ \E i \in 1..MaxCalls, ok \in BOOLEAN : awaitSettles(i, ok)
  \/ onRemoved
  \/ \E status \in {"loading", "complete"} : onUpdated(status)

(***************************************************************************)
(* xpath-extractor: the service worker between the popup and the content   *)
(* script of the pattern picker, with chrome.storage.local.                *)
(***************************************************************************)
(* Bound: the requests the popup sends. *)
MaxRequests == 2

(* Bound: the saveExtractedData messages of clicks that are in flight. *)
MaxPending == 1

NoStore == [held |-> FALSE]

NoReply == [kind |-> "none"]

NoRequest ==
  [action |-> "none", at |-> "unsent", responses |-> 0, response |-> NoReply]

(* activeTab: tabs.query finds an active tab; contentScript: the content   *)
(* script runs in it; storage: the extractedData, patternInfo and          *)
(* timestamp entries; requests: the requests of the popup, each at the     *)
(* callback it waits for, with the responses it has received; toContent    *)
(* and toWorker: the messages in flight; cleared: the content script has   *)
(* handled clearSelection and no click has been taken since.               *)
InitExtractor ==
  [activeTab |-> TRUE, contentScript |-> TRUE, storage |-> NoStore,
   requests |-> [r \in 1..MaxRequests |-> NoRequest],
   toContent |-> <<>>, toWorker |-> <<>>, cleared |-> FALSE]

(***************************************************************************)
(* Gmail reply assistant: the content script with the modal, and the       *)
(* service worker that calls the LLM API.                                  *)
(***************************************************************************)
Digits ==
  {"0", "1", "2", "3", "4", "5", "6", "7", "8", "9"}

LowerCase ==
  {"a", "b", "c", "d", "e", "f", "g", "h", "i", "j", "k", "l", "m", "n",
   "o", "p", "q", "r", "s", "t", "u", "v", "w", "x", "y", "z"}

UpperCase ==
  {"A", "B", "C", "D", "E", "F", "G", "H", "I", "J", "K", "L", "M", "N",
   "O", "P", "Q", "R", "S", "T", "U", "V", "W", "X", "Y", "Z"}

Letters == LowerCase \cup UpperCase

(* \w, and the character classes of the e-mail pattern. *)
WordChars == Letters \cup Digits \cup {"_"}
EmailLocal == Letters \cup Digits \cup {".", "_", "%", "+", "-"}
EmailDomain == Letters \cup Digits \cup {".", "-"}

CharAt(text, i) == IF i \in 1..Len(text) THEN text[i] ELSE ""

AllIn(text, i, n, class) == \A k \in 0..(n - 1) : CharAt(text, i + k) \in class

(* The length of the longest run of characters of the class from i on. *)
RunLength(text, i, class) ==
  CHOOSE n \in 0..Len(text) :
    AllIn(text, i, n, class) /\ CharAt(text, i + n) \notin class

(* \b in front of position i. *)
WordBoundary(text, i) ==
  (CharAt(text, i - 1) \in WordChars) # (CharAt(text, i) \in WordChars)

(* The length of the match each pattern finds at position i, 0 for none;   *)
(* greedy quantifiers give the longest repetition that lets the rest of    *)
(* the pattern match.                                                      *)
matchEmail(text, i) ==
  LET local == RunLength(text, i, EmailLocal)
      j == i + local + 1
      ds == {d \in 1..RunLength(text, j, EmailDomain) :
               /\ CharAt(text, j + d) = "."
               /\ RunLength(text, j + d + 1, Letters) >= 2}
  IN IF local = 0 \/ CharAt(text, i + local) # "@" \/ ds = {} THEN 0
     ELSE LET d == MaxOfSet(ds)
          IN local + 1 + d + 1 + RunLength(text, j + d + 1, Letters)

matchPhone(text, i) ==
  LET fits(a, h1, b, h2, c) ==
        /\ AllIn(text, i + 1, a, Digits)
        /\ h1 = 1 => CharAt(text, i + 1 + a) = "-"
        /\ AllIn(text, i + 1 + a + h1, b, Digits)
        /\ h2 = 1 => CharAt(text, i + 1 + a + h1 + b) = "-"
        /\ AllIn(text, i + 1 + a + h1 + b + h2, c, Digits)
        /\ WordBoundary(text, i + 1 + a + h1 + b + h2 + c)
      rank(t) == (((t[1] * 2 + t[2]) * 5 + t[3]) * 2 + t[4]) * 5 + t[5]
      found == {t \in (1..4) \X (0..1) \X (1..4) \X (0..1) \X (3..4) :
                  fits(t[1], t[2], t[3], t[4], t[5])}
  IN IF ~WordBoundary(text, i) \/ CharAt(text, i) # "0" \/ found = {} THEN 0
     ELSE LET t == CHOOSE x \in found : \A y \in found : rank(y) <= rank(x)
          IN 1 + t[1] + t[2] + t[3] + t[4] + t[5]

matchZip(text, i) ==
  IF /\ WordBoundary(text, i)
     /\ AllIn(text, i, 3, Digits)
     /\ CharAt(text, i + 3) = "-"
     /\ AllIn(text, i + 4, 4, Digits)
     /\ WordBoundary(text, i + 8)
  THEN 8 ELSE 0

matchCard(text, i) ==
  LET found == {n \in 13..16 : /\ AllIn(text, i, n, Digits)
                               /\ WordBoundary(text, i + n)}
  IN IF ~WordBoundary(text, i) \/ found = {} THEN 0 ELSE MaxOfSet(found)

piiPatterns == <<"EMAIL", "PHONE", "ZIP", "CARD">>

matchAt(rule, text, i) ==
  CASE rule = "EMAIL" -> matchEmail(text, i)
    [] rule = "PHONE" -> matchPhone(text, i)
    [] rule = "ZIP" -> matchZip(text, i)
    [] rule = "CARD" -> matchCard(text, i)

placeholder(rule) ==
  CASE rule = "EMAIL" -> <<"[", "E", "M", "A", "I", "L", "]">>
    [] rule = "PHONE" -> <<"[", "P", "H", "O", "N", "E", "]">>
    [] rule = "ZIP" -> <<"[", "Z", "I", "P", "]">>
    [] rule = "CARD" -> <<"[", "C", "A", "R", "D", "]">>

(* text.replace(rule.pattern, rule.placeholder) from position i on. *)
RECURSIVE replacePattern(_, _, _)
replacePattern(text, i, rule) ==
  IF i > Len(text) THEN <<>>
  ELSE Only({ IF n > 0
              THEN placeholder(rule) \o replacePattern(text, i + n, rule)
              ELSE <<text[i]>> \o replacePattern(text, i + 1, rule) :
              n \in {matchAt(rule, text, i)} })

RECURSIVE maskFrom(_, _)
maskFrom(result, k) ==
  IF k > Len(piiPatterns) THEN result
  ELSE maskFrom(replacePattern(result, 1, piiPatterns[k]), k + 1)

maskPii(text) == maskFrom(text, 1)

(* Bound: the replies inserted into the reply editor. *)
MaxReplies == 2

(* The texts of the page (selection, last message), of the memo, the       *)
(* purpose presets in storage and the replies of the API.                  *)
BaseTexts ==
  {<<>>, <<"h", "i">>, <<" ", "t", "o", " ", "a", "@", "b", ".", "c", "c", ".", " ">>,
   <<"0", "3", "-", "1", "2", "3", "4", "-", "5", "6", "7", "8">>,
   <<"1", "2", "3", "-", "4", "5", "6", "7">>,
   <<"4", "1", "1", "1", "1", "1", "1", "1", "1", "1", "1", "1", "1">>}

Memos == {<<>>, <<" ", "h", "i", " ">>, <<"a", "@", "b", ".", "c", "c">>}

PurposeLists ==
  {<<<<"t", "h", "a", "n", "k", "s">>, <<"d", "u", "n">>>>,
   <<<<"t", "o", " ", "c", "@", "d", ".", "e", "e">>>>}

Replies == {<<" ", "o", "k", " ">>}

Trim(text) == TrimRight(TrimLeft(text))

NoMessage == [sent |-> FALSE]

(* typed: what the modal's fields held at the last click on generate. *)
InitGmail ==
  [buttonAttached |-> FALSE, overlay |-> FALSE, previewTextarea |-> <<>>,
   options |-> <<>>, purposeSelect |-> <<>>, memoTextarea |-> <<>>,
   disabled |-> FALSE, message |-> NoMessage, fetch |-> NoMessage,
   response |-> NoMessage, editable |-> <<>>, typed |-> NoMessage]

ensureButtons ==
  /\ ~gmail.buttonAttached
  /\ gmail' = [gmail EXCEPT !.buttonAttached = TRUE]
  /\ UNCHANGED <<picker, pickerVer1, pickerVer2, workerVer2, extractor>>

(* The AI reply button, used while no modal is open: the base text is the  *)
(* selection or, without one, the last message.                            *)
openAiReplyModal(selection, lastMessage) ==
  /\ gmail.buttonAttached
  /\ ~gmail.overlay
  /\ gmail' = [gmail EXCEPT
                 !.overlay = TRUE,
                 !.previewTextarea = IF Trim(selection) # <<>>
                                     THEN Trim(selection)
                                     ELSE Trim(lastMessage),
                 !.options = <<>>,
                 !.purposeSelect = <<>>,
                 !.memoTextarea = <<>>,
                 !.disabled = FALSE]
  /\ UNCHANGED <<picker, pickerVer1, pickerVer2, workerVer2, extractor>>

(* The callback of chrome.storage.sync.get fills the select, whose value   *)
(* is then its first option.                                               *)
purposesLoaded(purposes) ==
  /\ gmail.overlay
  /\ gmail.options = <<>>
  /\ gmail' = [gmail EXCEPT !.options = purposes,
                            !.purposeSelect = purposes[1]]
  /\ UNCHANGED <<picker, pickerVer1, pickerVer2, workerVer2, extractor>>

selectPurpose(k) ==
  /\ gmail.overlay
  /\ k \in 1..Len(gmail.options)
  /\ gmail' = [gmail EXCEPT !.purposeSelect = gmail.options[k]]
  /\ UNCHANGED <<picker, pickerVer1, pickerVer2, workerVer2, extractor>>

inputMemo(text) ==
  /\ gmail.overlay
  /\ gmail' = [gmail EXCEPT !.memoTextarea = text]
  /\ UNCHANGED <<picker, pickerVer1, pickerVer2, workerVer2, extractor>>

cancelClick ==
  /\ gmail.overlay
  /\ ~gmail.disabled
  /\ gmail' = [gmail EXCEPT !.overlay = FALSE]
  /\ UNCHANGED <<picker, pickerVer1, pickerVer2, workerVer2, extractor>>

generateClick ==
  /\ gmail.overlay
  /\ ~gmail.disabled
  /\ Len(gmail.editable) < MaxReplies
  /\ \E maskedText \in {maskPii(gmail.previewTextarea)} :
       gmail' =
         IF maskedText = <<>> /\ gmail.memoTextarea = <<>> THEN gmail
         ELSE [gmail EXCEPT
                 !.disabled = TRUE,
                 !.message = [sent |-> TRUE,
                              maskedText |-> maskedText,
                              purpose |-> gmail.purposeSelect,
                              memo |-> gmail.memoTextarea],
                 !.typed = [sent |-> TRUE,
                            originalText |-> gmail.previewTextarea,
                            purpose |-> gmail.purposeSelect,
                            memo |-> gmail.memoTextarea]]
  /\ UNCHANGED <<picker, pickerVer1, pickerVer2, workerVer2, extractor>>

(* The user prompt of callLlmApi: the purpose line, the masked text and,   *)
(* when the trimmed memo is not empty, the trimmed memo.                   *)
userPromptLines(payload) ==
  [sent |-> TRUE, purpose |-> payload.purpose,
   maskedText |-> payload.maskedText,
   memo |-> IF Len(Trim(payload.memo)) > 0 THEN <<Trim(payload.memo)>>
            ELSE <<>>]

(* The service worker takes the generateReply message: the message is lost *)
(* (lastError), the settings are incomplete, or the request goes out.      *)
onMessage(outcome) ==
  /\ gmail.message.sent
  /\ gmail' = [gmail EXCEPT
                 !.message = NoMessage,
                 !.fetch = IF outcome = "fetch"
                           THEN userPromptLines(gmail.message) ELSE @,
                 !.response = IF outcome = "fetch" THEN @
                              ELSE [sent |-> TRUE, success |-> FALSE,
                                    replyText |-> <<>>]]
  /\ UNCHANGED <<picker, pickerVer1, pickerVer2, workerVer2, extractor>>

(* The fetch settles: an HTTP or format error or a timeout, or a reply     *)
(* whose trimmed content is returned.                                      *)
fetchSettles(ok, content) ==
  /\ gmail.fetch.sent
  /\ gmail' = [gmail EXCEPT
                 !.fetch = NoMessage,
                 !.response = [sent |-> TRUE, success |-> ok,
                               replyText |-> IF ok THEN Trim(content)
                                             ELSE <<>>]]
  /\ UNCHANGED <<picker, pickerVer1, pickerVer2, workerVer2, extractor>>

(* The callback of sendMessage in the content script. *)
responseCallback ==
  /\ gmail.response.sent
  /\ gmail' =
       IF gmail.response.success /\ gmail.response.replyText # <<>>
       THEN [gmail EXCEPT !.disabled = FALSE, !.response = NoMessage,
                          !.editable = Append(@, gmail.response.replyText),
                          !.overlay = FALSE]
       ELSE [gmail EXCEPT !.disabled = FALSE, !.response = NoMessage]
  /\ UNCHANGED <<picker, pickerVer1, pickerVer2, workerVer2, extractor>>

NextGmail ==
  \/ ensureButtons
  \/ \E selection \in BaseTexts, lastMessage \in BaseTexts :
       openAiReplyModal(selection, lastMessage)
  \/ \E purposes \in PurposeLists : purposesLoaded(purposes)
  \/ \E k \in 1..2 : selectPurpose(k)
  \/ \E text \in Memos : inputMemo(text)
  \/ cancelClick
  \/ generateClick
  \/ \E outcome \in {"lastError", "settings", "fetch"} : onMessage(outcome)
  \/ \E ok \in BOOLEAN, content \in Replies \cup {<<>>} :
       fetchSettles(ok, content)
  \/ responseCallback

(***************************************************************************)
(* xpath_picker_ver2: the content script with the single, vertical,        *)
(* horizontal and table modes and the floating panel.                      *)
(***************************************************************************)
(* A page with a table of two rows, a list, a div with two children whose  *)
(* text is white space only, a row outside every table and an iframe.      *)
ListDoc ==
  [ parent |-> <<0, 1, 2, 3, 4, 4, 3, 7, 2, 9, 9, 2, 12, 12, 2, 15, 15, 2>>,
    tag    |-> <<"html", "body", "table", "tr", "td", "td", "tr", "td",
                 "ul", "li", "li", "div", "span", "p", "tr", "td", "td",
                 "iframe">>,
    id     |-> <<"", "", "", "", "", "", "", "", "", "", "", "", "", "", "",
                 "", "", "">>,
    text   |-> << <<>>, <<>>, <<>>, <<>>, <<"a", Sp>>, <<"b">>, <<>>, <<"c">>,
                  <<>>, <<"l">>, <<Nl, "m">>, <<>>, <<Sp>>, <<>>, <<>>,
                  <<"r">>, <<"s">>, <<>> >> ]

(* A page with a list of three items, of which the first and the third     *)
(* hold a span and the second holds text only.                             *)
GapDoc ==
  [ parent |-> <<0, 1, 2, 3, 4, 3, 3, 7>>,
    tag    |-> <<"html", "body", "ul", "li", "span", "li", "li", "span">>,
    id     |-> <<"", "", "", "", "", "", "", "">>,
    text   |-> << <<>>, <<>>, <<>>, <<>>, <<"a">>, <<"b">>, <<>>, <<"c">> >> ]

Ver2Docs == {ListDoc, GapDoc}

(* The panel: a div appended to the body behind its other children, and    *)
(* its text, which is never empty.                                         *)
PanelNode == 0 - 2

(* The elements the user clicks on while the picker is active: elements of *)
(* the page, the iframe among them, and the panel.                         *)
Ver2Targets ==
  {5, 6, 8, 10, 11, 13, 14, 16, 17, 18, PanelNode}
    \cap (Elements \cup {PanelNode})
PanelText == <<"p">>

(* The panel shows the mode, the XPath and the data or, where there is no  *)
(* data, a placeholder.                                                    *)
NoPanel == [shown |-> FALSE]

NoData == [type |-> "null", value |-> <<>>]

InitVer2 ==
  [isActive |-> FALSE, currentMode |-> "none", clickedElements |-> <<>>,
   clickedXPaths |-> <<>>, highlightedElements |-> <<>>,
   highlightClass |-> {}, extractedData |-> NoData, xpathPattern |-> <<>>,
   panelElement |-> FALSE, panel |-> NoPanel,
   clickHandler |-> FALSE, dblClickHandler |-> FALSE,
   listeners |-> {},
   last |-> [action |-> "load", wasActive |-> FALSE, clicked |-> 0,
             target |-> NoNode]]

AnySeg == [tag |-> "*", idx |-> Bare, id |-> ""]

ParentElement(e) ==
  IF e \in Elements /\ doc.parent[e] \in Elements THEN doc.parent[e]
  ELSE NoNode

hasSameTagSibling(e, panelElement) ==
  \/ \E s \in Elements :
        doc.parent[s] = doc.parent[e] /\ s > e /\ TagName(s) = TagName(e)
  \/ panelElement /\ doc.parent[e] = DocumentBody /\ TagName(e) = "div"

RECURSIVE getXPathForElement(_, _)
getXPathForElement(element, panelElement) ==
  IF element \notin Elements THEN <<>>
  ELSE IF element = DocumentElement THEN <<Slash, BareSeg("html")>>
  ELSE getXPathForElement(ParentElement(element), panelElement)
         \o <<Slash,
              IF SiblingIndex(element) > 1
                   \/ hasSameTagSibling(element, panelElement)
              THEN Lit(TagName(element), SiblingIndex(element))
              ELSE BareSeg(TagName(element))>>

SegmentsOf(xpath) == SelectSeq(xpath, LAMBDA t : t # Slash)

NoPatternInfo == [valid |-> FALSE]

analyzeXPathPair(xpath1, xpath2) ==
  LET segments1 == SegmentsOf(xpath1)
      segments2 == SegmentsOf(xpath2)
      differing == {i \in 1..Len(segments1) : segments1[i] # segments2[i]}
      indexed(i) == /\ segments1[i].idx >= 1 /\ segments2[i].idx >= 1
                    /\ segments1[i].tag = segments2[i].tag
  IN IF Len(segments1) # Len(segments2) THEN NoPatternInfo
     ELSE IF \E i \in differing : ~indexed(i) THEN NoPatternInfo
     ELSE IF differing = {} THEN NoPatternInfo
     ELSE LET v == MaxOfSet(differing)
          IN [valid |-> TRUE,
              pattern |-> JoinSegments(
                 [i \in 1..Len(segments1) |->
                    IF i \in differing THEN WildSeg(segments1[i].tag)
                    ELSE segments1[i]]),
              variableIndex |-> v - 1,
              baseSegments |-> SubSeq(segments1, 1, v - 1),
              variableTag |-> segments1[v].tag,
              suffixSegments |-> SubSeq(segments1, v + 1, Len(segments1))]

(* getElementByXPath: the first node of document.evaluate, or NoNode. *)
getElementByXPath(xpath) ==
  LET found == evaluateSteps(SegmentsOf(xpath), 1, {Document})
  IN IF found = {} THEN NoNode ELSE CHOOSE x \in found : \A y \in found : x <= y

maxIterations == 1000

RECURSIVE collectFromIndex(_, _)
collectFromIndex(patternInfo, index) ==
  IF index > maxIterations THEN <<>>
  ELSE LET el == getElementByXPath(
                   JoinSegments(patternInfo.baseSegments)
                     \o <<Slash, Lit(patternInfo.variableTag, index)>>
                     \o JoinSegments(patternInfo.suffixSegments))
       IN IF el = NoNode THEN <<>>
          ELSE <<el>> \o collectFromIndex(patternInfo, index + 1)

collectElementsByPattern(patternInfo) == collectFromIndex(patternInfo, 1)

RECURSIVE IsInside(_, _)
IsInside(e, ancestor) ==
  IF e \notin Elements THEN FALSE
  ELSE ParentElement(e) = ancestor \/ IsInside(ParentElement(e), ancestor)

(* querySelectorAll of the element for a set of tags, in document order. *)
querySelectorAll(e, tags) ==
  SortedSeq({c \in Elements : IsInside(c, e) /\ TagName(c) \in tags})

textOfElement(e) ==
  IF e = PanelNode THEN PanelText ELSE getElementText(textContent(e))

extractTableData(tableElement) ==
  LET rows == querySelectorAll(tableElement, {"tr"})
      rowData(row) ==
        LET cells == querySelectorAll(row, {"th", "td"})
        IN [k \in 1..Len(cells) |-> textOfElement(cells[k])]
      all == [r \in 1..Len(rows) |-> rowData(rows[r])]
  IN SelectSeq(all, LAMBDA rowTexts : Len(rowTexts) > 0)

RECURSIVE findNearest(_, _)
findNearest(e, tag) ==
  IF e \notin Elements THEN NoNode
  ELSE IF TagName(e) = tag THEN e
  ELSE findNearest(ParentElement(e), tag)

findNearestTable(element) == findNearest(element, "table")

findNearestRow(element) == findNearest(element, "tr")

RECURSIVE findCommonAncestor(_, _)
findCommonAncestor(el1, el2) ==
  IF el2 \notin Elements THEN DocumentBody
  ELSE IF el2 = el1 \/ IsInside(el1, el2) THEN el2
  ELSE findCommonAncestor(el1, ParentElement(el2))

RangeOf(seq) == {seq[k] : k \in 1..Len(seq)}

clearAllHighlights(p) ==
  [p EXCEPT !.highlightClass = @ \ RangeOf(p.highlightedElements),
            !.highlightedElements = <<>>]

applyHighlights(p, elements) ==
  [p EXCEPT !.highlightClass = @ \cup RangeOf(elements),
            !.highlightedElements = @ \o elements]

Dash == <<[tag |-> "-", idx |-> Bare, id |-> ""]>>

Placeholder(name) == [type |-> "placeholder", value |-> <<name>>]

(* updatePanel, with getOrCreatePanel: the panel is on the page afterwards *)
(* and shows the mode, the XPath or "-", and the content.                  *)
updatePanel(p, mode, xpath, content) ==
  [p EXCEPT !.panelElement = TRUE,
            !.panel = [shown |-> TRUE, mode |-> mode,
                       xpath |-> IF xpath = <<>> THEN Dash ELSE xpath,
                       content |-> content]]

removePanel(p) == [p EXCEPT !.panelElement = FALSE, !.panel = NoPanel]

TextsOf(elements) == [k \in 1..Len(elements) |-> textOfElement(elements[k])]

handleSingleMode(p, element) ==
  Only({ updatePanel(
           applyHighlights(
             [clearAllHighlights(p) EXCEPT
                !.currentMode = "single",
                !.clickedElements = <<element>>,
                !.clickedXPaths = <<xpath>>,
                !.extractedData = [type |-> "text", value |-> text],
                !.xpathPattern = xpath],
             <<element>>),
           "single", xpath,
           IF text = <<>> THEN Placeholder("empty text")
           ELSE [type |-> "text", value |-> text]) :
         xpath \in {getXPathForElement(element, p.panelElement)},
         text \in {textOfElement(element)} })

showList(p, mode, elements, texts, xpath) ==
  updatePanel(
    applyHighlights(
      [clearAllHighlights(p) EXCEPT
         !.currentMode = mode,
         !.extractedData = [type |-> "list", value |-> texts],
         !.xpathPattern = xpath],
      elements),
    mode, xpath,
    IF texts = <<>> THEN Placeholder("no elements")
    ELSE [type |-> "list", value |-> texts])

handleVerticalMode(p, patternInfo) ==
  Only({ showList(p, "vertical", elements, TextsOf(elements),
                  patternInfo.pattern) :
         elements \in {collectElementsByPattern(patternInfo)} })

handleHorizontalMode(p, rowElement) ==
  Only({ showList(p, "horizontal", elements, TextsOf(elements),
                  getXPathForElement(rowElement, p.panelElement)
                    \o <<Slash, AnySeg>>) :
         elements \in {querySelectorAll(rowElement, {"td", "th"})} })

(* ancestor.children: the panel is the last child of the body. *)
ChildrenOf(p, ancestor) ==
  Children(ancestor)
    \o (IF p.panelElement /\ ancestor = DocumentBody
        THEN <<PanelNode>> ELSE <<>>)

handleHorizontalModeByAncestor(p, ancestor, el1, el2) ==
  Only({ IF texts # <<>>
         THEN updatePanel(
                applyHighlights(
                  [clearAllHighlights(p) EXCEPT
                     !.currentMode = "horizontal",
                     !.extractedData = [type |-> "list", value |-> texts],
                     !.xpathPattern = xpath],
                  children),
                "horizontal", xpath, [type |-> "list", value |-> texts])
         ELSE handleSingleMode(
                clearAllHighlights([p EXCEPT !.currentMode = "horizontal"]),
                el2) :
         children \in {ChildrenOf(p, ancestor)},
         texts \in {SelectSeq(TextsOf(ChildrenOf(p, ancestor)),
                              LAMBDA t : Len(t) > 0)},
         xpath \in {getXPathForElement(ancestor, p.panelElement)
                      \o <<Slash, AnySeg>>} })

handleTableMode(p, tableElement) ==
  Only({ updatePanel(
           applyHighlights(
             [clearAllHighlights(p) EXCEPT
                !.currentMode = "table",
                !.extractedData = [type |-> "grid", value |-> data],
                !.xpathPattern = xpath],
             <<tableElement>>),
           "table", xpath,
           IF data = <<>> THEN Placeholder("no table data")
           ELSE [type |-> "grid", value |-> data]) :
         data \in {extractTableData(tableElement)},
         xpath \in {getXPathForElement(tableElement, p.panelElement)} })

handleSecondClick(p, element) ==
  LET el1 == p.clickedElements[1]
      xpath1 == p.clickedXPaths[1]
      xpath2 == getXPathForElement(element, p.panelElement)
      pushed == [p EXCEPT !.clickedElements = Append(@, element),
                          !.clickedXPaths = Append(@, xpath2)]
      table1 == findNearestTable(el1)
      row1 == findNearestRow(el1)
  IN IF el1 = element THEN p
     ELSE IF table1 # NoNode /\ table1 = findNearestTable(element)
     THEN handleTableMode(pushed, table1)
     ELSE IF row1 # NoNode /\ row1 = findNearestRow(element)
     THEN handleHorizontalMode(pushed, row1)
     ELSE Only({ IF patternInfo.valid
                 THEN handleVerticalMode(pushed, patternInfo)
                 ELSE handleHorizontalModeByAncestor(
                        pushed, findCommonAncestor(el1, element),
                        el1, element) :
                 patternInfo \in {analyzeXPathPair(xpath1, xpath2)} })

resetSelection(p) ==
  updatePanel(
    [clearAllHighlights(p) EXCEPT
       !.currentMode = "none", !.clickedElements = <<>>,
       !.clickedXPaths = <<>>, !.extractedData = NoData,
       !.xpathPattern = <<>>],
    "none", Dash, Placeholder("click an element"))

Marked(p, action, target) ==
  [p EXCEPT !.last = [action |-> action,
                      wasActive |-> pickerVer2.isActive,
                      clicked |-> Len(pickerVer2.clickedElements),
                      target |-> target]]

(* The event target is inside the panel, which is in the page only while   *)
(* panelElement is set.                                                    *)
panelContains(p, target) == p.panelElement /\ target = PanelNode

(* onClickHandler that takes every click after the first as a second click. *)
onClickHandlerNoThird(target) ==
  /\ "click" \in pickerVer2.listeners
  /\ target = PanelNode => pickerVer2.panelElement
  /\ pickerVer2' =
       Marked(IF panelContains(pickerVer2, target) THEN pickerVer2
              ELSE IF TagName(target) = "iframe" THEN pickerVer2
              ELSE IF Len(pickerVer2.clickedElements) = 0
              THEN handleSingleMode(pickerVer2, target)
              ELSE handleSecondClick(pickerVer2, target),
              "click", target)
  /\ UNCHANGED <<picker, pickerVer1, gmail, workerVer2, extractor>>

(* The click listener: a click inside the panel or on an iframe is         *)
(* ignored; the first click is a single selection, the second one chooses  *)
(* the mode, every later one resets and starts again.                      *)
onClickHandler(target) ==
  /\ "click" \in pickerVer2.listeners
  /\ target = PanelNode => pickerVer2.panelElement
  /\ pickerVer2' =
       Marked(IF panelContains(pickerVer2, target) THEN pickerVer2
              ELSE IF TagName(target) = "iframe" THEN pickerVer2
              ELSE IF Len(pickerVer2.clickedElements) = 0
              THEN handleSingleMode(pickerVer2, target)
              ELSE IF Len(pickerVer2.clickedElements) = 1
              THEN handleSecondClick(pickerVer2, target)
              ELSE handleSingleMode(resetSelection(pickerVer2), target),
              "click", target)
  /\ UNCHANGED <<picker, pickerVer1, gmail, workerVer2, extractor>>

(* The double-click listener: ignored inside the panel, a reset elsewhere. *)
onDblClickHandler(target) ==
  /\ "dblclick" \in pickerVer2.listeners
  /\ target = PanelNode => pickerVer2.panelElement
  /\ pickerVer2' =
       Marked(IF panelContains(pickerVer2, target) THEN pickerVer2
              ELSE resetSelection(pickerVer2),
              "dblclick", target)
  /\ UNCHANGED <<picker, pickerVer1, gmail, workerVer2, extractor>>

activate ==
  /\ pickerVer2' =
       Marked(IF pickerVer2.isActive THEN pickerVer2
              ELSE updatePanel(
                     [pickerVer2 EXCEPT
                        !.isActive = TRUE,
                        !.clickHandler = TRUE,
                        !.dblClickHandler = TRUE,
                        !.listeners = @ \cup {"click", "dblclick"}],
                     "none", Dash, Placeholder("click an element")),
              "activate", NoNode)
  /\ UNCHANGED <<picker, pickerVer1, gmail, workerVer2, extractor>>

(* deactivate that keeps the pattern on display in xpathPattern. *)
deactivateKeepPattern ==
  /\ pickerVer2' =
       Marked(IF ~pickerVer2.isActive THEN pickerVer2
              ELSE [removePanel(clearAllHighlights(pickerVer2)) EXCEPT
                      !.isActive = FALSE,
                      !.listeners =
                         @ \ ((IF pickerVer2.clickHandler
                                THEN {"click"} ELSE {})
                               \cup (IF pickerVer2.dblClickHandler
                                     THEN {"dblclick"} ELSE {})),
                      !.clickHandler = FALSE,
                      !.dblClickHandler = FALSE,
                      !.currentMode = "none",
                      !.clickedElements = <<>>,
                      !.clickedXPaths = <<>>,
                      !.extractedData = NoData],
              "deactivate", NoNode)
  /\ UNCHANGED <<picker, pickerVer1, gmail, workerVer2, extractor>>

deactivate ==
  /\ pickerVer2' =
       Marked(IF ~pickerVer2.isActive THEN pickerVer2
              ELSE [removePanel(clearAllHighlights(pickerVer2)) EXCEPT
                      !.isActive = FALSE,
                      !.listeners =
                         @ \ ((IF pickerVer2.clickHandler
                                THEN {"click"} ELSE {})
                               \cup (IF pickerVer2.dblClickHandler
                                     THEN {"dblclick"} ELSE {})),
                      !.clickHandler = FALSE,
                      !.dblClickHandler = FALSE,
                      !.currentMode = "none",
                      !.clickedElements = <<>>,
                      !.clickedXPaths = <<>>,
                      !.extractedData = NoData,
                      !.xpathPattern = <<>>],
              "deactivate", NoNode)
  /\ UNCHANGED <<picker, pickerVer1, gmail, workerVer2, extractor>>

NextVer2 ==
  \/ activate
  \/ deactivate
  \/ \E target \in Ver2Targets : onClickHandler(target)
  \/ \E target \in Ver2Targets : onDblClickHandler(target)

InitVer2Page ==
  /\ doc \in Ver2Docs
  /\ isSelectionModeActive = FALSE
  /\ selectedElements = <<>>
  /\ detectedPattern = NoPattern
  /\ matchedElements = <<>>
  /\ highlightOverlays = NoHighlights
  /\ saved = NoSave
  /\ response = NoResponse
  /\ last = [op |-> "load", element |-> NoNode, changed |-> FALSE,
             saves |-> 0, held |-> "null", cmp |-> NoCall, ext |-> NoCall]
  /\ probe = NoProbe
  /\ pickerVer1 = InitVer1
  /\ pickerVer2 = InitVer2
  /\ gmail = InitGmail
  /\ workerVer2 = InitWorkerVer2
  /\ extractor = InitExtractor

SpecVer2 == InitVer2Page /\ [][NextVer2]_vars

Init ==
  /\ doc \in Docs
  /\ isSelectionModeActive = FALSE
  /\ selectedElements = <<>>
  /\ detectedPattern = NoPattern
  /\ matchedElements = <<>>
  /\ highlightOverlays = NoHighlights
  /\ saved = NoSave
  /\ response = NoResponse
  /\ last = [op |-> "load", element |-> NoNode, changed |-> FALSE,
             saves |-> 0, held |-> "null", cmp |-> NoCall, ext |-> NoCall]
  /\ probe = NoProbe
  /\ pickerVer1 = InitVer1
  /\ pickerVer2 = InitVer2
  /\ gmail = InitGmail
  /\ workerVer2 = InitWorkerVer2
  /\ extractor = InitExtractor

saveDataToStorage(sel, pattern, matched) ==
  [sent |-> TRUE, extracted |-> extractData(sel, pattern, matched)]

FindIndex(sel, element) ==
  IF \E k \in 1..Len(sel) : sel[k].element = element
  THEN CHOOSE k \in 1..Len(sel) :
         /\ sel[k].element = element
         /\ \A j \in 1..(k - 1) : sel[j].element # element
  ELSE 0

(* Splice removing the entry behind the one found. *)
SpliceNext(sel, k) == SubSeq(sel, 1, k) \o SubSeq(sel, k + 2, Len(sel))

Splice(sel, k) == SubSeq(sel, 1, k - 1) \o SubSeq(sel, k + 1, Len(sel))

(* The selection changed to sel: updatePattern, refreshHighlights, save. *)
Recompute(sel, op, element) ==
  \E up \in {updatePattern(sel, detectedPattern)} :
     /\ selectedElements' = sel
     /\ detectedPattern' = up.pattern
     /\ matchedElements' = up.matched
     /\ highlightOverlays' = refreshHighlights(sel, up.matched)
     /\ saved' = saveDataToStorage(sel, up.pattern, up.matched)
     /\ response' = NoResponse
     /\ last' = [op |-> op, element |-> element, changed |-> TRUE,
                 saves |-> 1, held |-> detectedPattern.type,
                 cmp |-> up.cmp, ext |-> up.ext]

NoChange(op, element) ==
  /\ last' = [op |-> op, element |-> NoNode, changed |-> FALSE,
              saves |-> 0, held |-> detectedPattern.type,
              cmp |-> NoCall, ext |-> NoCall]
  /\ UNCHANGED <<selectedElements, detectedPattern, matchedElements,
                 highlightOverlays, saved, response>>

(* handleElementClick without the search for the element in the selection. *)
handleElementClickNoFind(element) ==
  /\ isSelectionModeActive
  /\ IsConnected(element)
  /\ Len(selectedElements) < MaxSel
  /\ Recompute(Append(selectedElements,
                      [element |-> element, xpath |-> generateXPath(element)]),
               "click", element)
  /\ UNCHANGED <<doc, isSelectionModeActive, probe, others>>

handleElementClick(element) ==
  /\ isSelectionModeActive
  /\ IsConnected(element)
  /\ IF FindIndex(selectedElements, element) # 0
     THEN NoChange("click", element)
     ELSE /\ Len(selectedElements) < MaxSel
          /\ Recompute(Append(selectedElements,
                              [element |-> element,
                               xpath |-> generateXPath(element)]),
                       "click", element)
  /\ UNCHANGED <<doc, isSelectionModeActive, probe, others>>

(* handleElementDoubleClick updating, redrawing and saving whether or not  *)
(* the element was found in the selection.                                 *)
handleElementDoubleClickAlways(element) ==
  /\ isSelectionModeActive
  /\ IsConnected(element)
  /\ LET index == FindIndex(selectedElements, element)
     IN Recompute(IF index # 0 THEN Splice(selectedElements, index)
                  ELSE selectedElements,
                  "dblclick", element)
  /\ UNCHANGED <<doc, isSelectionModeActive, probe, others>>

handleElementDoubleClick(element) ==
  /\ isSelectionModeActive
  /\ IsConnected(element)
  /\ LET index == FindIndex(selectedElements, element)
     IN IF index # 0
        THEN Recompute(Splice(selectedElements, index), "dblclick", element)
        ELSE NoChange("dblclick", element)
  /\ UNCHANGED <<doc, isSelectionModeActive, probe, others>>

(* clearAllSelections without the reset of detectedPattern. *)
clearAllSelectionsKeepPattern ==
  /\ highlightOverlays' = NoHighlights
  /\ selectedElements' = <<>>
  /\ matchedElements' = <<>>
  /\ saved' = saveDataToStorage(<<>>, detectedPattern, <<>>)
  /\ response' = NoResponse
  /\ last' = [op |-> "clear", element |-> NoNode, changed |-> TRUE,
              saves |-> 1, held |-> detectedPattern.type,
              cmp |-> NoCall, ext |-> NoCall]
  /\ UNCHANGED <<doc, isSelectionModeActive, detectedPattern, probe, others>>

clearAllSelections ==
  /\ highlightOverlays' = NoHighlights
  /\ selectedElements' = <<>>
  /\ detectedPattern' = NoPattern
  /\ matchedElements' = <<>>
  /\ saved' = saveDataToStorage(<<>>, NoPattern, <<>>)
  /\ response' = NoResponse
  /\ last' = [op |-> "clear", element |-> NoNode, changed |-> TRUE,
              saves |-> 1, held |-> detectedPattern.type,
              cmp |-> NoCall, ext |-> NoCall]
  /\ UNCHANGED <<doc, isSelectionModeActive, probe, others>>

toggleSelectionMode ==
  /\ isSelectionModeActive' = ~isSelectionModeActive
  /\ UNCHANGED <<doc, selectedElements, detectedPattern, matchedElements,
                 highlightOverlays, saved, response, last, probe, others>>

handleKeyDown ==
  /\ isSelectionModeActive
  /\ isSelectionModeActive' = FALSE
  /\ UNCHANGED <<doc, selectedElements, detectedPattern, matchedElements,
                 highlightOverlays, saved, response, last, probe, others>>

(* getCurrentData with an extraction that empties matchedElements. *)
getCurrentDataConsuming ==
  /\ response' = [sent |-> TRUE,
                  extracted |-> extractData(selectedElements, detectedPattern,
                                            matchedElements)]
  /\ matchedElements' = <<>>
  /\ UNCHANGED <<doc, isSelectionModeActive, selectedElements,
                 detectedPattern, highlightOverlays, saved, last, probe, others>>

(* The getCurrentData message: the reply is the extraction of the current  *)
(* state, which the extraction leaves as it is.                            *)
getCurrentData ==
  /\ response' = [sent |-> TRUE,
                  extracted |-> extractData(selectedElements, detectedPattern,
                                            matchedElements)]
  /\ UNCHANGED <<doc, isSelectionModeActive, selectedElements,
                 detectedPattern, matchedElements, highlightOverlays, saved,
                 last, probe, others>>

(* The page removes a node from its parent: the node and its subtree stay  *)
(* referenced by the selection but are no longer in the document; the      *)
(* content script is not notified and recomputes nothing.                  *)
removeChild(n) ==
  /\ doc.parent[n] # NoNode
  /\ doc' = [doc EXCEPT !.parent[n] = NoNode]
  /\ response' = NoResponse
  /\ UNCHANGED <<isSelectionModeActive, selectedElements, detectedPattern,
                 matchedElements, highlightOverlays, saved, last, probe, others>>

Next ==
  \/ \E element \in Targets : handleElementClick(element)
  \/ \E element \in Targets : handleElementDoubleClick(element)
  \/ clearAllSelections
  \/ toggleSelectionMode
  \/ handleKeyDown
  \/ getCurrentData
  \/ \E n \in Removable : removeChild(n)

Spec == Init /\ [][Next]_vars

(***************************************************************************)
(* xpath-extractor: the popup's requests, the service worker's callbacks   *)
(* and the content script's message listener.                              *)
(***************************************************************************)
Responded(request, reply) ==
  [request EXCEPT !.responses = @ + 1, !.response = reply]

(* The worker's onMessage listener takes a request of the popup: clearData *)
(* starts the removal of the three entries, toggleFromPopup and            *)
(* getSelectionMode start tabs.query.                                      *)
popupSends(r, action) ==
  /\ extractor.requests[r].at = "unsent"
  /\ \A q \in 1..(r - 1) : extractor.requests[q].at # "unsent"
  /\ extractor' =
       IF action = "clearData"
       THEN [extractor EXCEPT
               !.storage = NoStore,
               !.requests[r] = [NoRequest EXCEPT !.action = action,
                                                 !.at = "remove"]]
       ELSE [extractor EXCEPT
               !.requests[r] = [NoRequest EXCEPT !.action = action,
                                                 !.at = "query"]]
  /\ UNCHANGED <<picker, pickerVer1, pickerVer2, gmail, workerVer2>>

(* The callback of storage.local.remove: tabs.query is started and the     *)
(* popup is answered.                                                      *)
storageRemoved(r) ==
  /\ extractor.requests[r].at = "remove"
  /\ extractor' =
       [extractor EXCEPT
          !.requests[r] = [Responded(@, [kind |-> "success"])
                             EXCEPT !.at = "query"]]
  /\ UNCHANGED <<picker, pickerVer1, pickerVer2, gmail, workerVer2>>

ToContent(action) ==
  IF action = "clearData" THEN "clearSelection"
  ELSE IF action = "toggleFromPopup" THEN "toggleSelectionMode"
  ELSE "getSelectionMode"

(* The callback of tabs.query that answers nothing without an active tab. *)
tabsQueriedSilent(r) ==
  /\ extractor.requests[r].at = "query"
  /\ \E request \in {extractor.requests[r]} :
       extractor' =
         IF extractor.activeTab
         THEN [extractor EXCEPT
                 !.toContent = Append(@, [action |-> ToContent(request.action),
                                          request |-> r]),
                 !.requests[r].at = "message"]
         ELSE [extractor EXCEPT !.requests[r].at = "done"]
  /\ UNCHANGED <<picker, pickerVer1, pickerVer2, gmail, workerVer2>>

(* The callback of tabs.query: with an active tab the message for the      *)
(* content script is sent, without one toggleFromPopup and                 *)
(* getSelectionMode are answered at once.                                  *)
tabsQueried(r) ==
  /\ extractor.requests[r].at = "query"
  /\ \E request \in {extractor.requests[r]} :
       extractor' =
         IF extractor.activeTab
         THEN [extractor EXCEPT
                 !.toContent = Append(@, [action |-> ToContent(request.action),
                                          request |-> r]),
                 !.requests[r].at = "message"]
         ELSE IF request.action = "clearData"
         THEN [extractor EXCEPT !.requests[r].at = "done"]
         ELSE IF request.action = "toggleFromPopup"
         THEN [extractor EXCEPT
                 !.requests[r] =
                    [Responded(@, [kind |-> "failure", success |-> FALSE,
                                   error |-> "No active tab"])
                       EXCEPT !.at = "done"]]
         ELSE [extractor EXCEPT
                 !.requests[r] =
                    [Responded(@, [kind |-> "mode", isActive |-> FALSE])
                       EXCEPT !.at = "done"]]
  /\ UNCHANGED <<picker, pickerVer1, pickerVer2, gmail, workerVer2>>

(* tabs.sendMessage rejects: the tab has no content script.  The catch of  *)
(* clearData does nothing, the other two answer the popup.                 *)
sendMessageRejects ==
  /\ extractor.toContent # <<>>
  /\ ~extractor.contentScript
  /\ \E message \in {Head(extractor.toContent)} :
       extractor' =
         [extractor EXCEPT
            !.toContent = Tail(@),
            !.requests[message.request] =
               IF message.action = "clearSelection"
               THEN [@ EXCEPT !.at = "done"]
               ELSE IF message.action = "toggleSelectionMode"
               THEN [Responded(@, [kind |-> "failure", success |-> FALSE,
                                   error |-> "no receiver"])
                       EXCEPT !.at = "done"]
               ELSE [Responded(@, [kind |-> "mode", isActive |-> FALSE])
                       EXCEPT !.at = "done"]]
  /\ UNCHANGED <<picker, pickerVer1, pickerVer2, gmail, workerVer2>>

(* The content script's onMessage listener takes the message at the head   *)
(* of the queue and the worker passes its answer on to the popup.          *)
(* clearSelection runs clearAllSelections, whose saveDataToStorage sends   *)
(* saveExtractedData to the worker.                                        *)
contentOnMessage ==
  /\ extractor.toContent # <<>>
  /\ extractor.contentScript
  /\ \E message \in {Head(extractor.toContent)} :
       IF message.action = "toggleSelectionMode"
       THEN /\ isSelectionModeActive' = ~isSelectionModeActive
            /\ extractor' =
                 [extractor EXCEPT
                    !.toContent = Tail(@),
                    !.requests[message.request] =
                       [Responded(@, [kind |-> "mode",
                                      isActive |-> ~isSelectionModeActive])
                          EXCEPT !.at = "done"]]
            /\ UNCHANGED <<selectedElements, detectedPattern, matchedElements,
                           highlightOverlays, saved, response, last>>
       ELSE IF message.action = "getSelectionMode"
       THEN /\ extractor' =
                 [extractor EXCEPT
                    !.toContent = Tail(@),
                    !.requests[message.request] =
                       [Responded(@, [kind |-> "mode",
                                      isActive |-> isSelectionModeActive])
                          EXCEPT !.at = "done"]]
            /\ UNCHANGED <<isSelectionModeActive, selectedElements,
                           detectedPattern, matchedElements,
                           highlightOverlays, saved, response, last>>
       ELSE /\ highlightOverlays' = NoHighlights
            /\ selectedElements' = <<>>
            /\ detectedPattern' = NoPattern
            /\ matchedElements' = <<>>
            /\ saved' = saveDataToStorage(<<>>, NoPattern, <<>>)
            /\ response' = NoResponse
            /\ last' = [op |-> "clear", element |-> NoNode, changed |-> TRUE,
                        saves |-> 1, held |-> detectedPattern.type,
                        cmp |-> NoCall, ext |-> NoCall]
            /\ extractor' =
                 [extractor EXCEPT
                    !.toContent = Tail(@),
                    !.toWorker = Append(@, saved'),
                    !.cleared = TRUE,
                    !.requests[message.request].at = "done"]
            /\ UNCHANGED isSelectionModeActive
  /\ UNCHANGED <<doc, probe, pickerVer1, pickerVer2, gmail, workerVer2>>

(* A click in the tab: handleElementClick, whose saveDataToStorage sends   *)
(* saveExtractedData to the worker.                                        *)
clickInTab(element) ==
  /\ extractor.contentScript
  /\ isSelectionModeActive
  /\ IsConnected(element)
  /\ IF FindIndex(selectedElements, element) # 0
     THEN /\ NoChange("click", element)
          /\ UNCHANGED extractor
     ELSE /\ Len(selectedElements) < MaxSel
          /\ Len(extractor.toWorker) < MaxPending
          /\ Recompute(Append(selectedElements,
                              [element |-> element,
                               xpath |-> generateXPath(element)]),
                       "click", element)
          /\ extractor' = [extractor EXCEPT !.toWorker = Append(@, saved'),
                                            !.cleared = FALSE]
  /\ UNCHANGED <<doc, isSelectionModeActive, probe,
                 pickerVer1, pickerVer2, gmail, workerVer2>>

(* The worker's onMessage listener takes saveExtractedData: the three      *)
(* entries are set.                                                        *)
saveExtractedData ==
  /\ extractor.toWorker # <<>>
  /\ extractor' =
       [extractor EXCEPT
          !.toWorker = Tail(@),
          !.storage = [held |-> TRUE,
                       extractedData |-> Head(extractor.toWorker).extracted.data,
                       patternInfo |->
                          Head(extractor.toWorker).extracted.patternInfo]]
  /\ UNCHANGED <<picker, pickerVer1, pickerVer2, gmail, workerVer2>>

ExtractorTargets == {5, 6}

PopupActions == {"clearData", "toggleFromPopup", "getSelectionMode"}

NextExtractor ==
  \/ \E r \in 1..MaxRequests, action \in PopupActions : popupSends(r, action)
  \/ \E r \in 1..MaxRequests : storageRemoved(r)
  \/ \E r \in 1..MaxRequests : tabsQueried(r)
  \/ sendMessageRejects
  \/ contentOnMessage
  \/ \E element \in ExtractorTargets : clickInTab(element)
  \/ saveExtractedData

(* The popup is opened on a window with no active tab, on a tab without    *)
(* the content script, or on a tab with it.                                *)
InitTab ==
  /\ doc = TableDoc
  /\ isSelectionModeActive = FALSE
  /\ selectedElements = <<>>
  /\ detectedPattern = NoPattern
  /\ matchedElements = <<>>
  /\ highlightOverlays = NoHighlights
  /\ saved = NoSave
  /\ response = NoResponse
  /\ last = [op |-> "load", element |-> NoNode, changed |-> FALSE,
             saves |-> 0, held |-> "null", cmp |-> NoCall, ext |-> NoCall]
  /\ probe = NoProbe
  /\ pickerVer1 = InitVer1
  /\ pickerVer2 = InitVer2
  /\ gmail = InitGmail
  /\ workerVer2 = InitWorkerVer2
  /\ extractor \in {[InitExtractor EXCEPT !.activeTab = tab[1],
                                          !.contentScript = tab[2]] :
                       tab \in {<<TRUE, TRUE>>, <<TRUE, FALSE>>,
                                <<FALSE, FALSE>>}}

SpecExtractor == InitTab /\ [][NextExtractor]_vars

(* The callbacks of chrome.storage, chrome.tabs.query and                  *)
(* chrome.tabs.sendMessage are called, and a message that is sent is       *)
(* delivered.                                                              *)
SpecExtractorLive ==
  /\ SpecExtractor
  /\ WF_vars(\E r \in 1..MaxRequests : storageRemoved(r))
  /\ WF_vars(\E r \in 1..MaxRequests : tabsQueried(r))
  /\ WF_vars(sendMessageRejects)
  /\ WF_vars(contentOnMessage)
  /\ WF_vars(saveExtractedData)

(***************************************************************************)
(* Direct application of the path functions to the elements of the         *)
(* document: the paths of two elements, their comparison, the evaluation   *)
(* of the pattern it yields and of the first element's own path, and the   *)
(* updatePattern of the selection of the first and then the second element *)
(* (of the first alone when the two are the same element).                 *)
(***************************************************************************)
selectedEntry(element) == [element |-> element, xpath |-> generateXPath(element)]

updatePatternOfPair(a, b) ==
  LET first == updatePattern(<<selectedEntry(a)>>, NoPattern)
  IN IF a = b THEN first
     ELSE updatePattern(<<selectedEntry(a), selectedEntry(b)>>, first.pattern)

ApplyPathFunctions(a, b) ==
  LET xpathA == generateAbsoluteXPath(a)
      xpathB == generateAbsoluteXPath(b)
      result == compareXPaths(xpathA, xpathB)
  IN /\ probe' = [ran |-> TRUE, a |-> a, b |-> b,
                  pair |-> updatePatternOfPair(a, b),
                  xpathA |-> xpathA, xpathB |-> xpathB,
                  result |-> result,
                  matched |-> findMatchingElements(result.pattern),
                  own |-> findMatchingElements(xpathA),
                  ownCollected |->
                    collectElementsWithWildcard(
                      parseXPathToSegments(xpathA), 0, Document)]
     /\ UNCHANGED <<doc, isSelectionModeActive, selectedElements,
                    detectedPattern, matchedElements, highlightOverlays,
                    saved, response, last, others>>

NextPath == \E a \in Elements, b \in Elements : ApplyPathFunctions(a, b)

InitPath ==
  /\ doc \in PathDocs
  /\ isSelectionModeActive = FALSE
  /\ selectedElements = <<>>
  /\ detectedPattern = NoPattern
  /\ matchedElements = <<>>
  /\ highlightOverlays = NoHighlights
  /\ saved = NoSave
  /\ response = NoResponse
  /\ last = [op |-> "load", element |-> NoNode, changed |-> FALSE,
             saves |-> 0, held |-> "null", cmp |-> NoCall, ext |-> NoCall]
  /\ probe = NoProbe
  /\ pickerVer1 = InitVer1
  /\ pickerVer2 = InitVer2
  /\ gmail = InitGmail
  /\ workerVer2 = InitWorkerVer2
  /\ extractor = InitExtractor

SpecPath == InitPath /\ [][NextPath]_vars

SpecVer1 == Init /\ [][NextVer1]_vars

SpecVer1Tab == Init /\ [][NextVer1Tab]_vars

SpecWorkerVer2 == Init /\ [][NextWorkerVer2]_vars

SpecGmail == Init /\ [][NextGmail]_vars

(***************************************************************************)
(* Direct application of the text normalization to every text of up to     *)
(* MaxText characters over Chars, and to the text "  a\n\tb   c ".         *)
(***************************************************************************)
MaxText == 4

Chars == {" ", "\n", "\t", "\r", "a", "b"}

ExampleText == <<" ", " ", "a", "\n", "\t", "b", " ", " ", " ", "c", " ">>

Texts == UNION {[1..n -> Chars] : n \in 0..MaxText} \cup {ExampleText}

ApplyNormalizeText(text) ==
  /\ ~probe.ran
  /\ probe' = [ran |-> TRUE, text |-> text,
                normalized |-> normalizeText(text),
                again |-> normalizeText(normalizeText(text)),
                elementText |-> getElementText(text)]
  /\ UNCHANGED <<doc, isSelectionModeActive, selectedElements,
                 detectedPattern, matchedElements, highlightOverlays,
                 saved, response, last, others>>

NextText == \E text \in Texts : ApplyNormalizeText(text)

SpecText == Init /\ [][NextText]_vars

(***************************************************************************)
(* Direct application of parseSegment to two segment strings, and of       *)
(* compareXPaths to the paths /tr[1]/s1 and /tr[2]/s2.                     *)
(***************************************************************************)
SegmentTokens ==
  {Lit(t, i) : t \in {"td", "th"}, i \in 1..3}
    \cup {BareSeg(t) : t \in {"td", "th"}}
    \cup {WildSeg(t) : t \in {"td", "th"}}
    \cup {IdSeg(i) : i \in {"side", "main"}}

ApplySegmentFunctions(s1, s2) ==
  /\ ~probe.ran
  /\ probe' = [ran |-> TRUE, s1 |-> s1, s2 |-> s2,
                parsed1 |-> parseSegment(s1),
                parsed2 |-> parseSegment(s2),
                result |-> compareXPaths(<<Slash, Lit("tr", 1), Slash, s1>>,
                                         <<Slash, Lit("tr", 2), Slash, s2>>)]
  /\ UNCHANGED <<doc, isSelectionModeActive, selectedElements,
                 detectedPattern, matchedElements, highlightOverlays,
                 saved, response, last, others>>

NextSegment ==
  \E s1 \in SegmentTokens, s2 \in SegmentTokens : ApplySegmentFunctions(s1, s2)

SpecSegment == Init /\ [][NextSegment]_vars

(***************************************************************************)
(* Properties.                                                             *)
(***************************************************************************)

(* The segment tokens of a path string and the nodes of a selection. *)
Tokens(xpath) == SelectSeq(xpath, LAMBDA t : t.tag # "/")
Nodes(sel) == [k \in 1..Len(sel) |-> sel[k].element]
Occurs(seq, x) == \E k \in 1..Len(seq) : seq[k] = x
Generalized == detectedPattern.type \in {"1d", "2d"}

(* Two paths with the same length and the same tag at every position. *)
SameSkeleton(x, y) ==
  /\ Len(Tokens(x)) = Len(Tokens(y))
  /\ \A i \in 1..Len(Tokens(x)) : Tokens(x)[i].tag = Tokens(y)[i].tag

(* Two paths of one length whose tags differ at some position. *)
TagMismatch(x, y) ==
  /\ Len(Tokens(x)) = Len(Tokens(y))
  /\ \E i \in 1..Len(Tokens(x)) : Tokens(x)[i].tag # Tokens(y)[i].tag

(* The grid of the table (element 3): one row per tr, holding the          *)
(* normalized texts of its td cells in index order.                        *)
GridByRowAndColumn ==
  LET trs == ChildrenWithTag(3, "tr")
  IN [r \in 1..Len(trs) |->
        [c \in 1..Len(ChildrenWithTag(trs[r], "td")) |->
           normalizeText(textContent(ChildrenWithTag(trs[r], "td")[c]))]]

(* C1: in every 2-D state the row key is taken from the leftmost wildcard  *)
(* position and the column key from the next one; and after the clicks on  *)
(* tr[1]/td[1], tr[1]/td[2] and tr[2]/td[1] (elements 5, 6, 9), the third  *)
(* extending the 1-D pattern of the first two, the pattern is 2-D with the *)
(* tr and the td position wildcard and the extracted grid is keyed by tr   *)
(* index (rows) and td index (columns).                                    *)
C1_GridKeyedByPathOrder ==
  /\ detectedPattern.type = "2d" =>
       LET w == detectedPattern.variableIndices
       IN /\ Len(w) >= 2
          /\ w[1] < w[2]
          /\ \A k \in 3..Len(w) : w[2] < w[k]
  /\ ( /\ Nodes(selectedElements) = <<5, 6, 9>>
       /\ last.op = "click" /\ last.element = 9
       /\ last.ext.ran
       /\ last.ext.current.variableIndices = <<4>> )
     => /\ detectedPattern.type = "2d"
        /\ detectedPattern.variableIndices = <<3, 4>>
        /\ IsWildToken(Tokens(detectedPattern.xpath)[4])
        /\ IsWildToken(Tokens(detectedPattern.xpath)[5])
        /\ saved.extracted.patternInfo.type = "2d"
        /\ saved.extracted.data = GridByRowAndColumn

(* C2: whenever a pattern is held, its variableIndices are strictly        *)
(* increasing, each of them is the position of a wildcard segment of the   *)
(* pattern, and every other segment is a fixed literal.                    *)
C2_WildcardPositionsOrdered ==
  detectedPattern.type # "null" =>
    LET w == detectedPattern.variableIndices
        segs == Tokens(detectedPattern.xpath)
    IN /\ \A k \in 1..(Len(w) - 1) : w[k] < w[k + 1]
       /\ \A k \in 1..Len(w) :
            /\ w[k] \in 0..(Len(segs) - 1)
            /\ segs[w[k] + 1].idx = Star
       /\ \A i \in 0..(Len(segs) - 1) :
            ~Occurs(w, i) => segs[i + 1].idx # Star

C2_Witness ==
  /\ detectedPattern.type = "2d"
  /\ Len(detectedPattern.variableIndices) = 2
  /\ Len(selectedElements) >= 3
  /\ last.op = "click" /\ last.ext.ran

(* The engine after selecting the given elements, in order, from the      *)
(* empty state.                                                            *)
RECURSIVE Replay(_)
Replay(elems) ==
  IF elems = <<>>
  THEN [sel |-> <<>>, pattern |-> NoPattern, matched |-> <<>>]
  ELSE LET prev == Replay(SubSeq(elems, 1, Len(elems) - 1))
           e == elems[Len(elems)]
           sel == Append(prev.sel, [element |-> e, xpath |-> generateXPath(e)])
           up == updatePattern(sel, prev.pattern)
       IN [sel |-> sel, pattern |-> up.pattern, matched |-> up.matched]

(* C3: after a deselect that removed a node, the held pattern and the      *)
(* match set are those obtained by selecting the remaining nodes, in their *)
(* order, from the empty state.                                            *)
C3_DeselectEqualsReplay ==
  (last.op = "dblclick" /\ last.changed) =>
    LET fresh == Replay(Nodes(selectedElements))
    IN /\ detectedPattern = fresh.pattern
       /\ matchedElements = fresh.matched

(* C4: a select that leaves 3 or more nodes selected, runs detect2DPattern *)
(* and meets a tag that differs from the pattern's tag at some position    *)
(* leaves the held pattern exactly as it was.                              *)
C4_TagMismatchKeepsPattern ==
  [][ ( /\ Len(selectedElements') = Len(selectedElements) + 1
        /\ Len(selectedElements') >= 3
        /\ last'.ext.ran
        /\ TagMismatch(last'.ext.current.xpath, last'.ext.newXPath) )
      => detectedPattern' = detectedPattern ]_vars

C4_Witness ==
  /\ last.op = "click" /\ last.changed
  /\ Len(selectedElements) >= 3
  /\ last.ext.ran
  /\ TagMismatch(last.ext.current.xpath, last.ext.newXPath)
  /\ Generalized

(* C5 as stated: whenever the recomputation of a select yields             *)
(* NotComparable, from compareXPaths or from detect2DPattern, the pattern  *)
(* becomes "multiple" and the match set the selected nodes in order.       *)
C5_NotComparableIsAmbiguous ==
  ( /\ last.op = "click" /\ last.changed
    /\ \/ last.cmp.ran /\ ~last.cmp.result.isValid
       \/ last.ext.ran /\ ~last.ext.result.isValid )
  => /\ detectedPattern.type = "multiple"
     /\ matchedElements = Nodes(selectedElements)

(* C5 amended: whenever the compareXPaths call of a select's recomputation *)
(* (on the two nodes, or on the first two of three or more when no         *)
(* generalized pattern is held) yields NotComparable, the pattern becomes  *)
(* "multiple" and the match set the selected nodes in selection order.     *)
C5_CompareFailureIsAmbiguous ==
  ( /\ last.op = "click" /\ last.changed
    /\ last.cmp.ran /\ ~last.cmp.result.isValid )
  => /\ detectedPattern.type = "multiple"
     /\ matchedElements = Nodes(selectedElements)

C5_Witness ==
  /\ last.op = "click" /\ last.changed
  /\ last.cmp.ran /\ ~last.cmp.result.isValid
  /\ Len(selectedElements) = 3
  /\ detectedPattern.type = "multiple"

(* C6: every call of detect2DPattern with a path of the pattern's own      *)
(* length and tags returns a pattern in which each position that was       *)
(* variable before the call is still variable and still a wildcard.        *)
C6_ExtendKeepsWildcards ==
  ( /\ last.ext.ran
    /\ SameSkeleton(last.ext.current.xpath, last.ext.newXPath) )
  => \A k \in 1..Len(last.ext.current.variableIndices) :
       LET pos == last.ext.current.variableIndices[k]
       IN /\ Occurs(last.ext.result.variableIndices, pos)
          /\ pos < Len(Tokens(last.ext.result.pattern))
          /\ Tokens(last.ext.result.pattern)[pos + 1].idx = Star

(* The positions (0-based) where two paths of one length carry two         *)
(* different indices.                                                      *)
DifferingPositions(a, b) ==
  {i \in 0..(Len(a) - 1) :
     a[i + 1].idx >= 1 /\ b[i + 1].idx >= 1 /\ a[i + 1].idx # b[i + 1].idx}

(* C7: compareXPaths is invalid exactly when the paths differ in length,   *)
(* or in a tag, or nowhere carry two different indices; so a path compared *)
(* with itself is invalid.                                                 *)
C7_NotComparableExactly ==
  probe.ran =>
    LET a == Tokens(probe.xpathA)
        b == Tokens(probe.xpathB)
    IN (~probe.result.isValid) <=>
         \/ Len(a) # Len(b)
         \/ \E i \in 1..Len(a) : a[i].tag # b[i].tag
         \/ DifferingPositions(a, b) = {}

C7_Witness ==
  /\ probe.ran
  /\ probe.a = probe.b
  /\ Len(Tokens(probe.xpathA)) = 5
  /\ ~probe.result.isValid

(* C8: a valid result of compareXPaths lists exactly the positions with    *)
(* two different indices, in ascending order; the pattern has a wildcard   *)
(* at each of them and the paths' common segment everywhere else.          *)
C8_WildcardsAreTheDifferences ==
  (probe.ran /\ probe.result.isValid) =>
    LET a == Tokens(probe.xpathA)
        b == Tokens(probe.xpathB)
        w == probe.result.variableIndices
        pat == Tokens(probe.result.pattern)
    IN /\ {w[k] : k \in 1..Len(w)} = DifferingPositions(a, b)
       /\ \A k \in 1..(Len(w) - 1) : w[k] < w[k + 1]
       /\ Len(pat) = Len(a)
       /\ \A i \in 0..(Len(a) - 1) :
            IF i \in DifferingPositions(a, b)
            THEN pat[i + 1] = [tag |-> a[i + 1].tag, idx |-> Star, id |-> ""]
            ELSE pat[i + 1] = a[i + 1] /\ pat[i + 1] = b[i + 1]

C8_Witness ==
  /\ probe.ran /\ probe.result.isValid
  /\ probe.result.variableIndices = <<3, 4>>

(* An element lies on a pattern: its path has the pattern's length and     *)
(* tags, and the pattern's index at every fixed position.                  *)
OnPattern(e, pattern) ==
  LET path == Tokens(generateAbsoluteXPath(e))
      pat == Tokens(pattern)
  IN /\ Len(path) = Len(pat)
     /\ \A i \in 1..Len(pat) :
          /\ path[i].tag = pat[i].tag
          /\ pat[i].idx # Star => path[i].idx = pat[i].idx

(* A sequence of elements without repetition, in document order. *)
InDocumentOrder(seq) == \A j, k \in 1..Len(seq) : j < k => seq[j] < seq[k]

(* C9: evaluating a pattern with a wildcard returns exactly the elements   *)
(* that lie on the pattern, each once, in document order.                  *)
C9_ResolveReturnsThePatternFamily ==
  (probe.ran /\ probe.result.isValid) =>
    /\ {probe.matched[k] : k \in 1..Len(probe.matched)}
         = {e \in Elements : OnPattern(e, probe.result.pattern)}
    /\ InDocumentOrder(probe.matched)

(* A wildcard at the tr position with a fixed td below it, where one tr    *)
(* has no td of that index.                                                *)
C9_Witness ==
  /\ probe.ran /\ probe.result.isValid
  /\ probe.result.variableIndices = <<3>>
  /\ Len(probe.matched) >= 2
  /\ Len(probe.matched) < Len(ChildrenWithTag(3, "tr"))

(* C10: evaluating the absolute path of an element returns that element    *)
(* and nothing else.                                                       *)
C10_PathRoundTrip ==
  probe.ran =>
    /\ probe.own = <<probe.a>>
    /\ probe.ownCollected = <<probe.a>>

(* An element whose index among its same-tag siblings is not its position  *)
(* among all siblings.                                                     *)
C10_Witness ==
  /\ probe.ran
  /\ probe.a = 9
  /\ probe.own = <<9>>

(* The children of an element's parent that carry the element's tag. *)
SameTagSiblings(e) ==
  {s \in 1..Len(doc.parent) :
     doc.parent[s] = doc.parent[e] /\ doc.tag[s] = doc.tag[e]}

NormalText(e) ==
  CASE e = 5 -> <<"a", " ", "b", " ", "c">>
    [] e = 6 -> <<"d">>
    [] e = 8 -> <<"h">>
    [] e = 9 -> <<"e", " ", "f">>
    [] e = 11 -> <<"g">>
    [] e = 12 -> <<"i">>
    [] e = 13 -> <<"x">>

(* C12: after the select of a second node whose path has the length of the *)
(* first node's path and another tag at some position, the pattern is      *)
(* "multiple", and the extraction, saved by the select and read again in   *)
(* the state, is of type "multiple" and holds exactly the normalized texts *)
(* of the two nodes in selection order.                                    *)
C12_TagMismatchExtractsBoth ==
  ( /\ last.op = "click" /\ last.changed
    /\ Len(selectedElements) = 2
    /\ last.cmp.ran
    /\ TagMismatch(last.cmp.xpath1, last.cmp.xpath2) )
  => LET texts == <<NormalText(selectedElements[1].element),
                    NormalText(selectedElements[2].element)>>
         current == extractData(selectedElements, detectedPattern,
                                matchedElements)
     IN /\ detectedPattern.type = "multiple"
        /\ saved.sent
        /\ saved.extracted.patternInfo.type = "multiple"
        /\ saved.extracted.patternInfo.count = 2
        /\ saved.extracted.data = texts
        /\ current.patternInfo.type = "multiple"
        /\ current.data = texts

(* tr[1]/td[1], whose text has white space at both ends, then tr[2]/th[1]. *)
C12_Witness ==
  /\ last.op = "click" /\ last.changed
  /\ Nodes(selectedElements) = <<5, 8>>
  /\ last.cmp.ran
  /\ TagMismatch(last.cmp.xpath1, last.cmp.xpath2)
  /\ detectedPattern.type = "multiple"

(* The extraction of the idle state: type "multiple" with no text. *)
EmptyMultiple ==
  [data |-> <<>>,
   patternInfo |-> [type |-> "multiple", count |-> 0, xpath |-> <<>>]]

(* C13: a deselect of the only selected node leaves the selection empty,   *)
(* no pattern and no matched element, and the extraction, saved by the     *)
(* deselect and read again in the state, is of type "multiple" with an     *)
(* empty sequence.                                                         *)
C13_DeselectOfOnlyNodeIsIdle ==
  [][ ( /\ Len(selectedElements) = 1
        /\ last' # last
        /\ last'.op = "dblclick" /\ last'.changed )
      => /\ selectedElements' = <<>>
         /\ detectedPattern' = NoPattern
         /\ matchedElements' = <<>>
         /\ saved' = [sent |-> TRUE, extracted |-> EmptyMultiple]
         /\ extractData(selectedElements', detectedPattern',
                        matchedElements') = EmptyMultiple ]_vars

C13_Witness ==
  /\ last.op = "dblclick" /\ last.changed
  /\ last.held = "single"
  /\ selectedElements = <<>>
  /\ detectedPattern = NoPattern
  /\ saved.sent /\ saved.extracted = EmptyMultiple

(* No node occurs twice in a selection. *)
NoDuplicate(sel) ==
  \A j, k \in 1..Len(sel) : j # k => sel[j].element # sel[k].element

(* C14: the selection never holds a node twice, and a click that does not  *)
(* lengthen the selection (the node is already selected) leaves the        *)
(* selection, the pattern, the matched elements and the saved extraction   *)
(* as they were and sends no save.                                         *)
C14_SelectOfSelectedNodeChangesNothing ==
  [][ /\ NoDuplicate(selectedElements')
      /\ ( /\ last' # last
           /\ last'.op = "click"
           /\ Len(selectedElements') = Len(selectedElements) )
         => /\ UNCHANGED <<selectedElements, detectedPattern,
                           matchedElements, saved>>
            /\ last'.saves = 0 ]_vars

(* A click on a selected node while a generalized pattern is held. *)
C14_Witness ==
  /\ last.op = "click" /\ ~last.changed
  /\ Len(selectedElements) >= 2
  /\ last.held \in {"1d", "2d"}
  /\ Generalized
  /\ saved.sent

(* C15: a double click that does not shorten the selection (the node is   *)
(* not selected) leaves the selection, the pattern, the matched elements,  *)
(* the highlights and the saved extraction as they were and sends no save. *)
C15_DeselectOfUnselectedNodeIsNoOp ==
  [][ ( /\ last' # last
        /\ last'.op = "dblclick"
        /\ Len(selectedElements') = Len(selectedElements) )
      => /\ UNCHANGED <<selectedElements, detectedPattern, matchedElements,
                        highlightOverlays, saved>>
         /\ last'.saves = 0 ]_vars

(* A double click on an unselected node while a generalized pattern with a *)
(* matched, unselected element is held.                                    *)
C15_Witness ==
  /\ last.op = "dblclick" /\ ~last.changed
  /\ Len(selectedElements) >= 2
  /\ Generalized
  /\ highlightOverlays.matched # {}
  /\ saved.sent

(* C16: after clearAllSelections, whatever was selected and whatever       *)
(* pattern was held, the selection is empty, no pattern is held, nothing   *)
(* is matched or highlighted, and the saved extraction is the empty one.   *)
C16_ResetLeavesNothing ==
  last.op = "clear"
  => /\ selectedElements = <<>>
     /\ detectedPattern = NoPattern
     /\ matchedElements = <<>>
     /\ highlightOverlays = NoHighlights
     /\ saved = [sent |-> TRUE, extracted |-> EmptyMultiple]

(* A reset while a 2-D pattern was held. *)
C16_Witness ==
  /\ last.op = "clear"
  /\ last.held = "2d"
  /\ selectedElements = <<>>
  /\ detectedPattern = NoPattern

(* C17: every step that activates or deactivates selection mode (the       *)
(* toggleSelectionMode message or the Escape key) leaves the selection     *)
(* empty, no pattern held and nothing matched.                             *)
C17_ModeChangeClearsSelection ==
  [][ (isSelectionModeActive' # isSelectionModeActive)
      => /\ selectedElements' = <<>>
         /\ detectedPattern' = NoPattern
         /\ matchedElements' = <<>> ]_vars

(* C18: whenever a "1d" or "2d" pattern is held and no element is matched, *)
(* the extraction has no text and carries the type of the pattern, not     *)
(* "multiple".                                                             *)
C18_NoMatchesOfOwnKind ==
  (Generalized /\ matchedElements = <<>>)
  => LET out == extractData(selectedElements, detectedPattern,
                            matchedElements)
     IN /\ out.data = <<>>
        /\ out.patternInfo.type = detectedPattern.type
        /\ out.patternInfo.type # "multiple"

(* A node is reachable from the document node through parent links. *)
RECURSIVE ReachableFromRoot(_, _)
ReachableFromRoot(d, e) ==
  IF e = 0 THEN TRUE
  ELSE IF e < 0 THEN FALSE
  ELSE ReachableFromRoot(d, d.parent[e])

(* A path that starts at the html element. *)
StartsAtRoot(xpath) ==
  Len(Tokens(xpath)) >= 1 /\ Tokens(xpath)[1].tag = "html"

(* C19: after every click or double click that recomputed the pattern, no  *)
(* node of the selection is detached from the document, and the paths      *)
(* compareXPaths and detect2DPattern were given are paths from the root    *)
(* (they start at html).                                                   *)
C19_DetachedNodeIsDropped ==
  [][ ( /\ last' # last
        /\ last'.op \in {"click", "dblclick"}
        /\ last'.changed )
      => /\ \A k \in 1..Len(selectedElements') :
              ReachableFromRoot(doc', selectedElements'[k].element)
         /\ last'.cmp.ran
              => /\ StartsAtRoot(last'.cmp.xpath1)
                 /\ StartsAtRoot(last'.cmp.xpath2)
         /\ last'.ext.ran => StartsAtRoot(last'.ext.newXPath) ]_vars

(* C20: updatePattern never yields a "2d" pattern with more than two       *)
(* wildcard positions, and two selected nodes whose paths carry different  *)
(* indices at three or more positions yield the pattern "multiple" with    *)
(* the two nodes as the matched elements.                                  *)
C20_ThreeWildcardsFailClosed ==
  probe.ran =>
    /\ probe.pair.pattern.type = "2d"
         => Len(probe.pair.pattern.variableIndices) <= 2
    /\ ( /\ probe.a # probe.b
         /\ Len(Tokens(probe.xpathA)) = Len(Tokens(probe.xpathB))
         /\ Cardinality(DifferingPositions(Tokens(probe.xpathA),
                                           Tokens(probe.xpathB))) >= 3 )
       => /\ probe.pair.pattern.type = "multiple"
          /\ probe.pair.matched = <<probe.a, probe.b>>

(* The number of cells of a grid. *)
RECURSIVE CellCount(_)
CellCount(grid) ==
  IF grid = <<>> THEN 0 ELSE Len(Head(grid)) + CellCount(Tail(grid))

(* The index an element's path carries at a position (0-based). *)
IndexAt(e, pos) == Tokens(generateAbsoluteXPath(e))[pos + 1].idx

(* The place of a matched node in the grid: the rank of its first-wildcard *)
(* index among those of all matched nodes, and the rank of its             *)
(* second-wildcard index among the matched nodes of its row.               *)
RowOf(e, matched, w) ==
  1 + Cardinality({IndexAt(matched[k], w[1]) : k \in 1..Len(matched)}
                    \cap 0..(IndexAt(e, w[1]) - 1))

ColOf(e, matched, w) ==
  1 + Cardinality({k \in 1..Len(matched) :
                     /\ IndexAt(matched[k], w[1]) = IndexAt(e, w[1])
                     /\ IndexAt(matched[k], w[2]) < IndexAt(e, w[2])})

(* C21: whenever a "2d" pattern is held and elements are matched, the grid *)
(* extracted in that state has one cell per matched element, and the text  *)
(* of each matched element stands in the row given by the rank of its      *)
(* index at the first wildcard position and, in that row, at the place     *)
(* given by the rank of its index at the second wildcard position.         *)
C21_GridHoldsEveryMatchedNode ==
  (detectedPattern.type = "2d" /\ matchedElements # <<>>)
  => LET out == extractData(selectedElements, detectedPattern,
                            matchedElements)
         w == detectedPattern.variableIndices
     IN /\ out.patternInfo.type = "2d"
        /\ CellCount(out.data) = Len(matchedElements)
        /\ \A k \in 1..Len(matchedElements) :
             LET e == matchedElements[k]
                 r == RowOf(e, matchedElements, w)
                 c == ColOf(e, matchedElements, w)
             IN /\ r <= Len(out.data)
                /\ c <= Len(out.data[r])
                /\ out.data[r][c] = NormalText(e)

(* The number of wildcard segments of a path string. *)
WildcardCount(xpath) ==
  Cardinality({i \in 1..Len(Tokens(xpath)) : Tokens(xpath)[i].idx = Star})

(* C22: in every state the type of the held pattern agrees with the number *)
(* of its wildcard segments, which is also the number of its               *)
(* variableIndices: none is "single", one is "1d", two or more is "2d";    *)
(* "multiple" and null carry no path.                                      *)
C22_KindAgreesWithWildcards ==
  LET n == WildcardCount(detectedPattern.xpath)
  IN /\ Len(detectedPattern.variableIndices) = n
     /\ detectedPattern.type \in {"null", "multiple"}
          => detectedPattern.xpath = <<>>
     /\ detectedPattern.type = "single" <=> (detectedPattern.xpath # <<>> /\ n = 0)
     /\ detectedPattern.type = "1d" <=> n = 1
     /\ detectedPattern.type = "2d" <=> n >= 2

(* A 2-D pattern held by three selected nodes after a deselect. *)
C22_Witness ==
  /\ last.op = "dblclick" /\ last.changed
  /\ Len(selectedElements) = 3
  /\ detectedPattern.type = "2d"
  /\ WildcardCount(detectedPattern.xpath) = 2

(* The elements in the document (reachable from its root) that lie on a    *)
(* pattern.                                                                *)
ResolvedSet(pattern) ==
  {e \in 1..Len(doc.parent) :
     ReachableFromRoot(doc, e) /\ OnPattern(e, pattern)}

WhiteSpace == {" ", "\n", "\t", "\r"}

InkPositions(text) ==
  SortedSeq({i \in 1..Len(text) : text[i] \notin WhiteSpace})

(* out is text with every run of white space between two other characters *)
(* replaced by one blank and the white space at both ends removed: out     *)
(* has the other characters of text in their order, starts and ends with   *)
(* one of them, and two that follow each other are neighbours in out when  *)
(* they are neighbours in text and have exactly one blank between them     *)
(* otherwise.                                                              *)
IsNormalFormOf(out, text) ==
  LET p == InkPositions(text)
      q == InkPositions(out)
  IN /\ Len(q) = Len(p)
     /\ \A k \in 1..Len(p) : out[q[k]] = text[p[k]]
     /\ \A i \in 1..Len(out) : out[i] \in WhiteSpace => out[i] = " "
     /\ IF Len(p) = 0 THEN Len(out) = 0
        ELSE q[1] = 1 /\ q[Len(q)] = Len(out)
     /\ \A k \in 1..(Len(p) - 1) :
          q[k + 1] - q[k] = IF p[k + 1] - p[k] = 1 THEN 1 ELSE 2

(* C25: normalizeText, and getElementText of xpath_picker_ver2, return the *)
(* text with every maximal run of white space replaced by one blank and    *)
(* none left at either end: no two adjacent blanks, no blank first or      *)
(* last; "  a\n\tb   c " becomes "a b c"; and normalizing the result       *)
(* again returns it unchanged.                                             *)
C25_NormalizeCollapsesWhiteSpace ==
  probe.ran =>
    /\ IsNormalFormOf(probe.normalized, probe.text)
    /\ IsNormalFormOf(probe.elementText, probe.text)
    /\ \A i \in 1..(Len(probe.normalized) - 1) :
         ~(probe.normalized[i] = " " /\ probe.normalized[i + 1] = " ")
    /\ probe.again = probe.normalized
    /\ probe.text = ExampleText
         => probe.normalized = <<"a", " ", "b", " ", "c">>

C25_Witness ==
  /\ probe.ran
  /\ probe.text = ExampleText
  /\ probe.normalized = <<"a", " ", "b", " ", "c">>
  /\ probe.again = probe.normalized

(* The segment strings parseSegment is specified for: tag[n], a bare tag   *)
(* and an id reference.                                                    *)
WellFormedSegment(s) == s.idx # Star

MalformedSegmentError == [error |-> "MalformedSegmentError"]

(* C26: parseSegment of a segment that is neither tag[n] nor a bare tag    *)
(* nor an id reference is the failure MalformedSegmentError, and a         *)
(* comparison of two paths one of which holds such a segment is invalid.   *)
C26_MalformedSegmentFails ==
  probe.ran =>
    /\ ~WellFormedSegment(probe.s1) => probe.parsed1 = MalformedSegmentError
    /\ ~WellFormedSegment(probe.s2) => probe.parsed2 = MalformedSegmentError
    /\ (~WellFormedSegment(probe.s1) \/ ~WellFormedSegment(probe.s2))
         => ~probe.result.isValid

(* C27: each enabling of selection mode of xpath_picker_ver1 handles at    *)
(* most one click: no second click computes or copies an XPath before the  *)
(* mode is enabled again, the clipboard write of the first click being     *)
(* settled or not.                                                         *)
C27_OneClickPerEnabling == pickerVer1.handled <= 1

(* The content script of xpath_picker_ver2 holds no data and no UI. *)
HoldsNothing(p) ==
  /\ p.currentMode = "none"
  /\ p.clickedElements = <<>>
  /\ p.clickedXPaths = <<>>
  /\ p.extractedData.type = "null"
  /\ p.xpathPattern = <<>>
  /\ p.highlightedElements = <<>>
  /\ p.highlightClass = {}
  /\ ~p.panelElement
  /\ ~p.panel.shown
  /\ ~p.clickHandler
  /\ ~p.dblClickHandler
  /\ p.listeners = {}

(* C28: after a deactivate of xpath_picker_ver2 the mode is "none", the    *)
(* clicked elements and XPaths are empty, extractedData is null, the       *)
(* pattern is empty, no element is highlighted, the panel is removed and   *)
(* the click and double-click listeners are unregistered; a deactivate     *)
(* while inactive changes nothing.                                         *)
C28_DeactivateLeavesNothing ==
  [][pickerVer2'.last.action = "deactivate"
       => /\ ~pickerVer2'.isActive
          /\ HoldsNothing(pickerVer2')
          /\ ~pickerVer2.isActive
               => [pickerVer2' EXCEPT !.last = pickerVer2.last] = pickerVer2]_vars

(* A deactivate has run on a picker that held two clicked elements. *)
C28_Witness ==
  /\ pickerVer2.last.action = "deactivate"
  /\ pickerVer2.last.wasActive
  /\ pickerVer2.last.clicked = 2
  /\ ~pickerVer2.isActive

LinesOf(text) == IF text = <<>> THEN <<>> ELSE <<text>>

(* C29: every text field of a generateReply request that is in the body of *)
(* the LLM API request -- original text, purpose, memo -- has passed        *)
(* through maskPii, and the unmasked original text is not in it.           *)
C29_OnlyMaskedTextLeaves ==
  gmail.fetch.sent =>
    /\ gmail.fetch.maskedText = maskPii(gmail.typed.originalText)
    /\ gmail.fetch.purpose = maskPii(gmail.typed.purpose)
    /\ gmail.fetch.memo \in {LinesOf(Trim(maskPii(gmail.typed.memo))),
                              LinesOf(maskPii(Trim(gmail.typed.memo)))}

(* The positions (1-based) of the wildcard segments of a path string, and  *)
(* the positions at which the paths of a selection do not all carry the    *)
(* same index.                                                             *)
WildcardPositions(xpath) ==
  {i \in 1..Len(Tokens(xpath)) : Tokens(xpath)[i].idx = Star}

VaryingPositions(sel) ==
  {i \in 1..Len(Tokens(sel[1].xpath)) :
     \E j \in 1..Len(sel), k \in 1..Len(sel) :
        Tokens(sel[j].xpath)[i].idx # Tokens(sel[k].xpath)[i].idx}

(* C30: three or more nodes of one depth and tag skeleton, selected from    *)
(* the empty state in the order of the selection, end with a pattern whose *)
(* wildcard positions are the positions at which the selected paths do not *)
(* all carry the same index, whatever the order.                           *)
C30_WildcardsAreOrderIndependent ==
  (/\ Len(selectedElements) >= 3
   /\ \A j \in 1..Len(selectedElements) :
        SameSkeleton(selectedElements[1].xpath, selectedElements[j].xpath))
    => WildcardPositions(Replay(Nodes(selectedElements)).pattern.xpath)
         = VaryingPositions(selectedElements)

(* C31: whenever the held pattern is of type "multiple", the matched       *)
(* elements are the selected elements in selection order, and the          *)
(* extraction holds the normalized texts of the selected elements and      *)
(* nothing else.                                                           *)
C31_AmbiguousMatchesTheSelection ==
  detectedPattern.type = "multiple"
    => /\ matchedElements = Nodes(selectedElements)
       /\ extractData(selectedElements, detectedPattern,
                      matchedElements).data
            = [k \in 1..Len(selectedElements) |->
                 NormalText(selectedElements[k].element)]

(* A text is among the texts of an extraction, a list for "1d" and a grid  *)
(* for "2d".                                                               *)
TextExtracted(out, text) ==
  IF out.patternInfo.type = "2d"
  THEN \E r \in 1..Len(out.data) :
         \E c \in 1..Len(out.data[r]) : out.data[r][c] = text
  ELSE \E k \in 1..Len(out.data) : out.data[k] = text

(* C32: while a "1d" or "2d" pattern is held and the tree is the one the   *)
(* page was loaded with, every selected element is a matched element and   *)
(* its normalized text is in the extraction.                               *)
C32_SelectedNodesAreMatched ==
  (Generalized /\ doc = TableDoc)
    => \A k \in 1..Len(selectedElements) :
         /\ Occurs(matchedElements, selectedElements[k].element)
         /\ TextExtracted(extractData(selectedElements, detectedPattern,
                                      matchedElements),
                          NormalText(selectedElements[k].element))

(* C33: with every message of the background script received and no       *)
(* clipboard write in flight, the tab's entry in activeTabs is true        *)
(* exactly when the content script's selectionModeEnabled is true.         *)
C33_ActiveTabsAgreesWithTheTab ==
  (pickerVer1.inbox = <<>> /\ pickerVer1.writes = <<>>)
    => (pickerVer1.activeTabs <=> pickerVer1.selectionModeEnabled)

(* C34: with no handler in progress the tab's entry in activeTabsMap is    *)
(* set only if a handleActivate has succeeded since the entry was last     *)
(* deleted, so after a rejected handleActivate getStatus answers inactive  *)
(* unless another one succeeded; and right after a handleDeactivate, a tab *)
(* removal or a navigation the entry is not set.                           *)
C34_ActiveOnlyAfterSuccess ==
  /\ (workerVer2.calls = <<>> /\ workerVer2.activeTabsMap)
       => workerVer2.succeeded
  /\ workerVer2.last \in {"deactivate resolved", "removed", "loading"}
       => ~workerVer2.activeTabsMap

(* The click history of xpath_picker_ver2 holds at most two elements and   *)
(* the mode says how many.                                                 *)
ModeMatchesHistory(p) ==
  /\ Len(p.clickedElements) <= 2
  /\ Len(p.clickedXPaths) = Len(p.clickedElements)
  /\ p.currentMode = "none" <=> Len(p.clickedElements) = 0
  /\ p.currentMode = "single" <=> Len(p.clickedElements) = 1
  /\ p.currentMode \in {"vertical", "horizontal", "table"}
       <=> Len(p.clickedElements) = 2

(* The last event was a click while the history held two elements. *)
ThirdClick(p) == p.last.action = "click" /\ p.last.clicked = 2

(* The picker holds the single selection of the element. *)
RestartedWith(p, target) ==
  p.currentMode = "single" /\ p.clickedElements = <<target>>

ElementsAtPattern(patternInfo) ==
  SelectSeq([i \in 1..Len(doc.parent) |->
               getElementByXPath(
                 JoinSegments(patternInfo.baseSegments)
                   \o <<Slash, Lit(patternInfo.variableTag, i)>>
                   \o JoinSegments(patternInfo.suffixSegments))],
            LAMBDA e : e # NoNode)

(* C36: in vertical mode of xpath_picker_ver2 the collected elements are   *)
(* every element at base/tag[i]/suffix of the pattern of the two clicks,   *)
(* in ascending i: no element with a larger index is left out.             *)
C36_VerticalCollectsEveryIndex ==
  pickerVer2.currentMode = "vertical" =>
    pickerVer2.highlightedElements =
      ElementsAtPattern(analyzeXPathPair(pickerVer2.clickedXPaths[1],
                                         pickerVer2.clickedXPaths[2]))

(* C37: every toggleFromPopup and getSelectionMode request the worker has  *)
(* taken is answered, and never twice; without an active tab or without a  *)
(* content script getSelectionMode is answered isActive = false and        *)
(* toggleFromPopup success = false with an error.                          *)
C37_EveryRequestIsAnsweredOnce ==
  /\ \A r \in 1..MaxRequests :
       (extractor.requests[r].action \in {"toggleFromPopup", "getSelectionMode"})
         ~> (extractor.requests[r].responses = 1)
  /\ [](\A r \in 1..MaxRequests :
          /\ extractor.requests[r].responses <= 1
          /\ extractor.requests[r].at = "done"
               => extractor.requests[r].responses = 1
          /\ (extractor.requests[r].responses = 1 /\ ~extractor.contentScript)
               => /\ extractor.requests[r].action = "getSelectionMode"
                      => extractor.requests[r].response
                           = [kind |-> "mode", isActive |-> FALSE]
                  /\ extractor.requests[r].action = "toggleFromPopup"
                      => /\ extractor.requests[r].response.kind = "failure"
                         /\ ~extractor.requests[r].response.success)

(* A toggleFromPopup request for a tab without the content script has been *)
(* answered.                                                               *)
C37_Witness ==
  \E r \in 1..MaxRequests :
     /\ extractor.activeTab
     /\ ~extractor.contentScript
     /\ extractor.requests[r].action = "toggleFromPopup"
     /\ extractor.requests[r].responses = 1

(* C38: once a clearData request is fully processed -- the entries are    *)
(* removed, the content script has handled clearSelection, no click has    *)
(* followed and no message is in flight -- the store holds none of the     *)
(* three entries and the selection, the pattern and the matched elements   *)
(* of the content script are empty.                                        *)
C38_ClearDataLeavesNothing ==
  (/\ extractor.cleared
   /\ extractor.toContent = <<>>
   /\ extractor.toWorker = <<>>
   /\ \A r \in 1..MaxRequests :
        extractor.requests[r].action = "clearData"
          => extractor.requests[r].at = "done")
    => /\ extractor.storage = NoStore
       /\ selectedElements = <<>>
       /\ detectedPattern = NoPattern
       /\ matchedElements = <<>>

====
